---- MODULE Spec2Model ----
(***************************************************************************)
(* Model of the asynchronous status waits and the resource operations of   *)
(* the OpenStack provider: the load-balancer wait helpers, the L7 policy,  *)
(* block-storage volume and DNS record set operations.                     *)
(*                                                                         *)
(* One caller runs one operation.  The remote control plane is the         *)
(* environment: every request draws its answer from the answers the API    *)
(* can give.  Time is counted in seconds, per wait.                        *)
(***************************************************************************)
EXTENDS Integers, Sequences, FiniteSets, TLC

VARIABLES
    pc,     \* position of the caller inside the running operation
    op,     \* the inputs of the running operation
    wait,   \* the StateChangeConf being waited on and the progress of its poll
    retry,  \* progress of the resource.Retry around a mutating request
    log,    \* requests issued and waits returned, in order (fetches of a wait are counted in wait)
    id,     \* d.Id(), "" when unset
    ret     \* what the operation returned: NotReturned, nil or an error

vars == <<pc, op, wait, retry, log, id, ret>>

(***************************************************************************)
(* Bounds.                                                                 *)
(***************************************************************************)
\* number of poll instants a drawn timeout leaves room for
MaxPolls == 3
\* a timeout shorter than the initial delay of the slow call sites
ShortTimeout == 1

(***************************************************************************)
(* Errors are message chains: fmt.Errorf("...: %s", err) puts its message  *)
(* in front of the chain of err.                                           *)
(***************************************************************************)
nil == <<>>
NotReturned == <<"not returned">>
ErrDefault404 == <<"ErrDefault404">>
ErrOther == <<"ErrOther">>
\* answers of a GET that are failures: not found, and any other failure
GetFailures == {"404", "500"}
GetError(get) == IF get = "404" THEN ErrDefault404 ELSE ErrOther

Is404(err) == err = ErrDefault404
Wrap(msg, err) == <<msg>> \o err
Cause(err) == IF Len(err) > 1 THEN SubSeq(err, 2, Len(err)) ELSE nil

\* mutant: ERROR is listed among the statuses of an update in progress
lbPendingStatuses_withError == {"PENDING_CREATE", "PENDING_UPDATE", "ERROR"}

\* lbPendingStatuses are the valid statuses a LoadBalancer will be in while it's updating.
lbPendingStatuses == {"PENDING_CREATE", "PENDING_UPDATE"}
\* lbPendingDeleteStatuses are the valid statuses a LoadBalancer will be before delete
lbPendingDeleteStatuses == {"ERROR", "PENDING_UPDATE", "PENDING_DELETE", "ACTIVE"}

\* provisioning statuses a load balancer read can report
LBStatuses ==
    {"ACTIVE", "PENDING_CREATE", "PENDING_UPDATE", "PENDING_DELETE", "ERROR", "DELETED"}

(***************************************************************************)
(* Refresh functions: what one fetch returns, given the answer of the GET. *)
(* A refresh result is [state, err]; err # nil means the fetch failed.     *)
(***************************************************************************)
RefreshResult(state, err) == [state |-> state, err |-> err]

resourceLBV2LoadBalancerRefreshFunc(get) ==
    IF get \in GetFailures THEN RefreshResult("", GetError(get))
    ELSE RefreshResult(get, nil)

resourceLBV2ListenerRefreshFunc(get) ==
    IF get \in GetFailures THEN RefreshResult("", GetError(get))
    ELSE RefreshResult("ACTIVE", nil)

resourceLBV2MemberRefreshFunc(get) ==
    IF get \in GetFailures THEN RefreshResult("", GetError(get))
    ELSE RefreshResult("ACTIVE", nil)

resourceLBV2MonitorRefreshFunc(get) ==
    IF get \in GetFailures THEN RefreshResult("", GetError(get))
    ELSE RefreshResult("ACTIVE", nil)

\* mutant: a pool that is not found reads as DELETED
resourceLBV2PoolRefreshFunc_deletedStatus(get) ==
    IF get = "404" THEN RefreshResult("DELETED", nil)
    ELSE IF get \in GetFailures THEN RefreshResult("", GetError(get))
    ELSE RefreshResult("ACTIVE", nil)

resourceLBV2PoolRefreshFunc(get) ==
    IF get \in GetFailures THEN RefreshResult("", GetError(get))
    ELSE RefreshResult("ACTIVE", nil)

resourceLBV2L7PolicyRefreshFunc(get) ==
    IF get \in GetFailures THEN RefreshResult("", GetError(get))
    ELSE RefreshResult("ACTIVE", nil)

(***************************************************************************)
(* The status poll (StateChangeConf.WaitForState).                         *)
(***************************************************************************)
NoWait ==
    [fn |-> "", Target |-> "", Pending |-> {}, Refresh |-> "", ID |-> "", Timeout |-> 0,
     Delay |-> 0, MinTimeout |-> 0,
     running |-> FALSE, elapsed |-> 0, fetches |-> 0, npending |-> 0, seen |-> {},
     last |-> "", err |-> nil]

\* the wait starts: the initial delay passes before the first fetch; fetches, npending,
\* seen and last record what the poll observed: the number of fetches made, the number
\* that returned a pending status, the pending statuses returned, the last status
WaitForState(fn, conf) ==
    [fn |-> fn, Target |-> conf.Target, Pending |-> conf.Pending,
     Refresh |-> conf.Refresh, ID |-> conf.ID, Timeout |-> conf.Timeout,
     Delay |-> conf.Delay, MinTimeout |-> conf.MinTimeout,
     running |-> TRUE, elapsed |-> conf.Delay, fetches |-> 0, npending |-> 0, seen |-> {},
     last |-> "", err |-> nil]

\* one fetch and its classification
WaitForStateStep(w, r) ==
    IF r.err # nil
    THEN [w EXCEPT !.running = FALSE, !.fetches = @ + 1, !.err = r.err]
    ELSE IF r.state = w.Target
    THEN [w EXCEPT !.running = FALSE, !.fetches = @ + 1, !.last = r.state, !.err = nil]
    ELSE IF r.state \in w.Pending
    THEN [w EXCEPT !.fetches = @ + 1, !.npending = @ + 1, !.last = r.state,
                   !.seen = @ \cup {r.state}, !.elapsed = @ + w.MinTimeout]
    ELSE [w EXCEPT !.running = FALSE, !.fetches = @ + 1, !.last = r.state,
                   !.err = <<"UnexpectedStateError", r.state>>]

\* the timeout has elapsed with no terminal classification
WaitForStateTimeout(w) ==
    [w EXCEPT !.running = FALSE, !.err = <<"TimeoutError", w.last>>]

WaitReturned == wait.fn # "" /\ ~wait.running

\* timeouts an operator can configure for a wait with this cadence
Timeouts(delay, minTimeout) ==
    {ShortTimeout} \cup {delay + k * minTimeout : k \in 0..(MaxPolls - 1)}

(***************************************************************************)
(* waitForLBV2LoadBalancer                                                 *)
(***************************************************************************)
\* mutant: the target of the wait is fixed instead of the one asked for
waitForLBV2LoadBalancerConf_fixedTarget(lbID, target, pending, timeout) ==
    [Target |-> "ACTIVE", Pending |-> pending, Refresh |-> "LoadBalancer", ID |-> lbID,
     Timeout |-> timeout, Delay |-> 0, MinTimeout |-> 1]

waitForLBV2LoadBalancerConf(lbID, target, pending, timeout) ==
    [Target |-> target, Pending |-> pending, Refresh |-> "LoadBalancer", ID |-> lbID,
     Timeout |-> timeout, Delay |-> 0, MinTimeout |-> 1]

\* mutant: for target DELETED any error of the poll counts as success
waitForLBV2LoadBalancerReturn_anyError(target, err) ==
    IF err # nil
    THEN IF target = "DELETED" THEN nil
         ELSE IF Is404(err) THEN Wrap("Error: loadbalancer not found", err)
         ELSE Wrap("Error waiting for loadbalancer", err)
    ELSE nil

\* mutant: the error of the poll is left out of the error returned
waitForLBV2LoadBalancerReturn_noCause(target, err) ==
    IF err # nil
    THEN IF Is404(err)
         THEN IF target = "DELETED" THEN nil
              ELSE Wrap("Error: loadbalancer not found", err)
         ELSE <<"Error waiting for loadbalancer">>
    ELSE nil

waitForLBV2LoadBalancerReturn(target, err) ==
    IF err # nil
    THEN IF Is404(err)
         THEN IF target = "DELETED" THEN nil
              ELSE Wrap("Error: loadbalancer not found", err)
         ELSE Wrap("Error waiting for loadbalancer", err)
    ELSE nil

\* entries of the log: a request sent to the control plane
Req(method, kind, ident) == [ev |-> method, kind |-> kind, on |-> ident, res |-> ""]
\* a mutating request with the answer it got
Mutation(method, kind, ident, answer) ==
    [ev |-> method, kind |-> kind, on |-> ident, res |-> answer]

(***************************************************************************)
(* lbV2FindLBIDviaPool: the load balancer of a pool, read through the      *)
(* pool's first listener when the pool has no direct reference.            *)
(* listenerRead is the answer listeners.Get gives if it is asked.          *)
(***************************************************************************)
LBRefs == {<<>>, <<"lb1", "lb2">>}
ListenerRefs == {<<>>, <<"listener1", "listener2">>}
Pools == [ID : {"pool1"}, Loadbalancers : LBRefs, Listeners : ListenerRefs]
Listeners == [ID : {"listener1"}, Loadbalancers : LBRefs]
ListenerReads ==
    {[err |-> nil, Loadbalancers |-> lbs] : lbs \in LBRefs}
        \cup {[err |-> e, Loadbalancers |-> <<>>] : e \in {ErrDefault404, ErrOther}}

\* mutant: the listener is asked before the pool's own reference is looked at
lbV2FindLBIDviaPool_listenerFirst(pool, listenerRead) ==
    IF Len(pool.Listeners) > 0
    THEN IF listenerRead.err # nil
         THEN [lbID |-> "", err |-> listenerRead.err, read |-> <<pool.Listeners[1]>>]
         ELSE IF Len(listenerRead.Loadbalancers) > 0
         THEN [lbID |-> listenerRead.Loadbalancers[1], err |-> nil,
               read |-> <<pool.Listeners[1]>>]
         ELSE [lbID |-> "", err |-> <<"Unable to determine loadbalancer ID from pool">>,
               read |-> <<pool.Listeners[1]>>]
    ELSE IF Len(pool.Loadbalancers) > 0
    THEN [lbID |-> pool.Loadbalancers[1], err |-> nil, read |-> <<>>]
    ELSE [lbID |-> "", err |-> <<"Unable to determine loadbalancer ID from pool">>,
          read |-> <<>>]

lbV2FindLBIDviaPool(pool, listenerRead) ==
    IF Len(pool.Loadbalancers) > 0
    THEN [lbID |-> pool.Loadbalancers[1], err |-> nil, read |-> <<>>]
    ELSE IF Len(pool.Listeners) > 0
    THEN IF listenerRead.err # nil
         THEN [lbID |-> "", err |-> listenerRead.err, read |-> <<pool.Listeners[1]>>]
         ELSE IF Len(listenerRead.Loadbalancers) > 0
         THEN [lbID |-> listenerRead.Loadbalancers[1], err |-> nil,
               read |-> <<pool.Listeners[1]>>]
         ELSE [lbID |-> "", err |-> <<"Unable to determine loadbalancer ID from pool">>,
               read |-> <<pool.Listeners[1]>>]
    ELSE [lbID |-> "", err |-> <<"Unable to determine loadbalancer ID from pool">>,
          read |-> <<>>]

\* log entries of the listener reads a lookup made
ReadLog(found) == [i \in 1..Len(found.read) |-> Req("GET", "listener", found.read[i])]

(***************************************************************************)
(* waitForLBV2Listener, waitForLBV2Member, waitForLBV2Monitor,             *)
(* waitForLBV2Pool: the StateChangeConf each builds (refreshFunc "" is the *)
(* nil refresh function) and the mapping of the poll's error.              *)
(***************************************************************************)
\* mutant: the load balancer is polled for target DELETED too
waitForLBV2ListenerConf_alwaysLoadBalancer(listener, target, pending, timeout) ==
    [Target |-> target, Pending |-> pending,
     Refresh |-> IF Len(listener.Loadbalancers) > 0 THEN "LoadBalancer" ELSE "",
     ID |-> IF Len(listener.Loadbalancers) > 0 THEN listener.Loadbalancers[1] ELSE "",
     Timeout |-> timeout, Delay |-> 1, MinTimeout |-> 1]

waitForLBV2ListenerConf(listener, target, pending, timeout) ==
    [Target |-> target, Pending |-> pending,
     Refresh |-> IF target = "DELETED" THEN "Listener"
                 ELSE IF Len(listener.Loadbalancers) > 0 THEN "LoadBalancer" ELSE "",
     ID |-> IF target = "DELETED" THEN listener.ID
            ELSE IF Len(listener.Loadbalancers) > 0 THEN listener.Loadbalancers[1] ELSE "",
     Timeout |-> timeout, Delay |-> 1, MinTimeout |-> 1]

\* mutant: the error is built without looking whether the poll failed
waitForLBV2ListenerReturn_noNilCheck(target, err) ==
    IF Is404(err) /\ target = "DELETED" THEN nil
    ELSE Wrap("Error waiting for listener", err)

\* mutant: for target DELETED every error of the poll counts as success
waitForLBV2ListenerReturn_deletedAnyError(target, err) ==
    IF err # nil
    THEN IF target = "DELETED" THEN nil
         ELSE Wrap("Error waiting for listener", err)
    ELSE nil

waitForLBV2ListenerReturn(target, err) ==
    IF err # nil
    THEN IF Is404(err) /\ target = "DELETED" THEN nil
         ELSE Wrap("Error waiting for listener", err)
    ELSE nil

waitForLBV2MemberConf(parentPool, found, target, pending, timeout) ==
    [Target |-> target, Pending |-> pending,
     Refresh |-> IF target = "DELETED" THEN "Member" ELSE "LoadBalancer",
     ID |-> IF target = "DELETED" THEN "member1" ELSE found.lbID,
     Timeout |-> timeout, Delay |-> 1, MinTimeout |-> 1]

\* mutant: not-found is success whatever the target
waitForLBV2MemberReturn_anyTarget(target, err) ==
    IF err # nil
    THEN IF Is404(err) THEN nil
         ELSE Wrap("Error waiting for member", err)
    ELSE nil

waitForLBV2MemberReturn(target, err) ==
    IF err # nil
    THEN IF Is404(err) /\ target = "DELETED" THEN nil
         ELSE Wrap("Error waiting for member", err)
    ELSE nil

waitForLBV2MonitorConf(parentPool, found, target, pending, timeout) ==
    [Target |-> target, Pending |-> pending,
     Refresh |-> IF target = "DELETED" THEN "Monitor" ELSE "LoadBalancer",
     ID |-> IF target = "DELETED" THEN "monitor1" ELSE found.lbID,
     Timeout |-> timeout, Delay |-> 1, MinTimeout |-> 1]

waitForLBV2MonitorReturn(target, err) ==
    IF err # nil
    THEN IF Is404(err) /\ target = "DELETED" THEN nil
         ELSE Wrap("Error waiting for monitor", err)
    ELSE nil

waitForLBV2PoolConf(pool, found, target, pending, timeout) ==
    [Target |-> target, Pending |-> pending,
     Refresh |-> IF target = "DELETED" THEN "Pool" ELSE "LoadBalancer",
     ID |-> IF target = "DELETED" THEN pool.ID ELSE found.lbID,
     Timeout |-> timeout, Delay |-> 1, MinTimeout |-> 1]

\* mutant: not-found is an error also when the target is DELETED
waitForLBV2PoolReturn_noDeleted(target, err) ==
    IF err # nil THEN Wrap("Error waiting for pool", err) ELSE nil

waitForLBV2PoolReturn(target, err) ==
    IF err # nil
    THEN IF Is404(err) /\ target = "DELETED" THEN nil
         ELSE Wrap("Error waiting for pool", err)
    ELSE nil

(***************************************************************************)
(* Helpers of the L7 policy resource that wait on the load balancer        *)
(* reached through a listener or through a pool, and on the policy itself. *)
(* Each gives the error it returns before polling, or the wait it builds.  *)
(***************************************************************************)
NoConf ==
    [Target |-> "", Pending |-> {}, Refresh |-> "", ID |-> "",
     Timeout |-> 0, Delay |-> 0, MinTimeout |-> 0]

PoolReads ==
    {[err |-> nil, pool |-> p] : p \in Pools}
        \cup {[err |-> e, pool |-> [ID |-> "", Loadbalancers |-> <<>>, Listeners |-> <<>>]] :
                e \in {ErrDefault404, ErrOther}}

waitForLBV2viaListener(listenerRead, target, pending, timeout) ==
    LET reads == <<Req("GET", "listener", "listener1")>> IN
    IF listenerRead.err # nil
    THEN [err |-> listenerRead.err, conf |-> NoConf, reads |-> reads]
    ELSE IF Len(listenerRead.Loadbalancers) = 0
    THEN [err |-> <<"Unable to determine loadbalancer ID from listener">>,
          conf |-> NoConf, reads |-> reads]
    ELSE [err |-> nil,
          conf |-> waitForLBV2LoadBalancerConf(listenerRead.Loadbalancers[1],
                                               target, pending, timeout),
          reads |-> reads]

\* mutant: an empty pending set is replaced by the usual pending statuses
waitForLBV2viaPool_defaultPending(poolRead, listenerRead, target, pending, timeout) ==
    IF poolRead.err # nil
    THEN [err |-> poolRead.err, conf |-> NoConf, reads |-> <<Req("GET", "pool", "pool1")>>]
    ELSE LET found == lbV2FindLBIDviaPool(poolRead.pool, listenerRead)
             reads == <<Req("GET", "pool", "pool1")>> \o ReadLog(found)
         IN
         IF found.err # nil
         THEN [err |-> found.err, conf |-> NoConf, reads |-> reads]
         ELSE [err |-> nil,
               conf |-> waitForLBV2LoadBalancerConf(found.lbID, target,
                           IF pending = {} THEN lbPendingStatuses ELSE pending, timeout),
               reads |-> reads]

waitForLBV2viaPool(poolRead, listenerRead, target, pending, timeout) ==
    IF poolRead.err # nil
    THEN [err |-> poolRead.err, conf |-> NoConf, reads |-> <<Req("GET", "pool", "pool1")>>]
    ELSE LET found == lbV2FindLBIDviaPool(poolRead.pool, listenerRead)
             reads == <<Req("GET", "pool", "pool1")>> \o ReadLog(found)
         IN
         IF found.err # nil
         THEN [err |-> found.err, conf |-> NoConf, reads |-> reads]
         ELSE [err |-> nil,
               conf |-> waitForLBV2LoadBalancerConf(found.lbID, target, pending, timeout),
               reads |-> reads]

waitForLBV2L7PolicyConf(l7policyID, target, pending, timeout) ==
    [Target |-> target, Pending |-> pending, Refresh |-> "L7Policy", ID |-> l7policyID,
     Timeout |-> timeout, Delay |-> 1, MinTimeout |-> 1]

waitForLBV2L7PolicyReturn(target, err) ==
    IF err # nil
    THEN IF Is404(err) /\ target = "DELETED" THEN nil
         ELSE Wrap("Error waiting for l7policy", err)
    ELSE nil

(***************************************************************************)
(* resource.Retry around a mutating request, and the classification of the *)
(* request's error.                                                        *)
(***************************************************************************)
\* answers of the control plane to a mutating request
MutationAnswers == {"ok", "conflict", "failed"}
MutationError(answer) ==
    IF answer = "conflict" THEN <<"ErrConflict">> ELSE <<"ErrFailed">>

\* seconds between two attempts of a retried request
RetryInterval == 1

checkForRetryableError(err) ==
    IF err = <<"ErrConflict">> THEN "RetryableError" ELSE "NonRetryableError"

NoRetry == [elapsed |-> 0, attempts |-> 0]

\* one attempt of the retried function f, which returned `outcome` (nil, or a
\* RetryError made from err): [done, err, retry]: whether resource.Retry returned,
\* with what, and its progress
Retry(r, timeout, outcome, err) ==
    LET tried == [r EXCEPT !.attempts = @ + 1] IN
    IF outcome = "nil"
    THEN [done |-> TRUE, err |-> nil, retry |-> tried]
    ELSE IF outcome = "RetryableError"
    THEN IF r.elapsed + RetryInterval > timeout
         THEN [done |-> TRUE, err |-> Wrap("timeout while waiting", err),
               retry |-> [tried EXCEPT !.elapsed = @ + RetryInterval]]
         ELSE [done |-> FALSE, err |-> nil,
               retry |-> [tried EXCEPT !.elapsed = @ + RetryInterval]]
    ELSE [done |-> TRUE, err |-> err, retry |-> tried]

\* the functions the L7 policy operations hand to resource.Retry, given the answer
\* of the one request each sends
\* mutant: every error of the request is handed back as retryable
resourceL7PolicyV2Create_f_alwaysRetry(answer) ==
    IF answer # "ok" THEN "RetryableError" ELSE "nil"

\* mutant: no error of the request is handed back as retryable
resourceL7PolicyV2Create_f_neverRetry(answer) ==
    IF answer # "ok" THEN "NonRetryableError" ELSE "nil"

resourceL7PolicyV2Create_f(answer) ==
    IF answer # "ok" THEN checkForRetryableError(MutationError(answer)) ELSE "nil"

resourceL7PolicyV2Update_f(answer) ==
    IF answer # "ok" THEN checkForRetryableError(MutationError(answer)) ELSE "nil"

\* mutant: the error of the request is dropped
resourceL7PolicyV2Delete_f_errorDropped(answer) == "nil"

resourceL7PolicyV2Delete_f(answer) ==
    IF answer # "ok" THEN checkForRetryableError(MutationError(answer)) ELSE "nil"

(***************************************************************************)
(* checkL7PolicyAction                                                     *)
(***************************************************************************)
\* mutant: the check of REDIRECT_TO_URL is missing
checkL7PolicyAction_noURLCheck(action, redirectURL, redirectPoolID) ==
    IF action = "REJECT" /\ (redirectURL # "" \/ redirectPoolID # "")
    THEN <<"redirect_url and redirect_pool_id must be empty when action is set to", action>>
    ELSE IF action = "REDIRECT_TO_POOL" /\ redirectURL # ""
    THEN <<"redirect_url must be empty when action is set to", action>>
    ELSE nil

\* mutant: the check of REJECT is missing
checkL7PolicyAction_noRejectCheck(action, redirectURL, redirectPoolID) ==
    IF action = "REDIRECT_TO_POOL" /\ redirectURL # ""
    THEN <<"redirect_url must be empty when action is set to", action>>
    ELSE IF action = "REDIRECT_TO_URL" /\ redirectPoolID # ""
    THEN <<"redirect_pool_id must be empty when action is set to", action>>
    ELSE nil

checkL7PolicyAction(action, redirectURL, redirectPoolID) ==
    IF action = "REJECT" /\ (redirectURL # "" \/ redirectPoolID # "")
    THEN <<"redirect_url and redirect_pool_id must be empty when action is set to", action>>
    ELSE IF action = "REDIRECT_TO_POOL" /\ redirectURL # ""
    THEN <<"redirect_url must be empty when action is set to", action>>
    ELSE IF action = "REDIRECT_TO_URL" /\ redirectPoolID # ""
    THEN <<"redirect_pool_id must be empty when action is set to", action>>
    ELSE nil

\* values of the action field the schema lets through (it compares ignoring case)
Actions == {"REDIRECT_TO_POOL", "REDIRECT_TO_URL", "REJECT", "reject"}
RedirectURLs == {"", "http://example.com/"}
RedirectPoolIDs == {"", "pool1"}

\* CheckDeleted: a read that finds nothing clears the ID and is no error
CheckDeleted(err, msg) ==
    IF Is404(err) THEN [id |-> "", err |-> nil, cleared |-> TRUE]
    ELSE [id |-> "", err |-> Wrap(msg, err), cleared |-> FALSE]

\* resourceL7PolicyV2Read, with the answer of l7policies.Get: [id, err]
resourceL7PolicyV2Read(d_id, get) ==
    IF get \in GetFailures
    THEN LET c == CheckDeleted(GetError(get), "L7 Policy") IN
         [id |-> IF c.cleared THEN "" ELSE d_id, err |-> c.err]
    ELSE [id |-> d_id, err |-> nil]

(***************************************************************************)
(* Block-storage volume and DNS record set: refresh functions and the      *)
(* StateChangeConf each call site builds.                                  *)
(***************************************************************************)
VolumeStatuses ==
    {"creating", "downloading", "available", "in-use", "attaching", "detaching",
     "deleting", "error"}
RecordSetStatuses == {"PENDING", "ACTIVE", "ERROR"}

\* a volume that is not found reads as deleted
blockStorageVolumeV1StateRefreshFunc(get) ==
    IF get = "404" THEN RefreshResult("deleted", nil)
    ELSE IF get \in GetFailures THEN RefreshResult("", GetError(get))
    ELSE RefreshResult(get, nil)

\* a record set that is not found reads as DELETED
dnsRecordSetV2RefreshFunc(get) ==
    IF get = "404" THEN RefreshResult("DELETED", nil)
    ELSE IF get \in GetFailures THEN RefreshResult("", GetError(get))
    ELSE RefreshResult(get, nil)

resourceBlockStorageVolumeV1CreateConf(volumeID, timeout) ==
    [Target |-> "available", Pending |-> {"downloading", "creating"}, Refresh |-> "Volume",
     ID |-> volumeID, Timeout |-> timeout, Delay |-> 10, MinTimeout |-> 3]

\* the fixed timeout of the wait for the volume to be detached, in seconds
DetachTimeout == 600

\* the wait of Delete for the volume to be detached from its instances
resourceBlockStorageVolumeV1DetachConf(volumeID) ==
    [Target |-> "available", Pending |-> {"in-use", "attaching", "detaching"},
     Refresh |-> "Volume", ID |-> volumeID, Timeout |-> DetachTimeout,
     Delay |-> 10, MinTimeout |-> 3]

\* mutant: the target status is listed among the pending ones
resourceBlockStorageVolumeV1DeleteConf_deletedPending(volumeID, timeout) ==
    [Target |-> "deleted", Pending |-> {"deleting", "downloading", "available", "deleted"},
     Refresh |-> "Volume", ID |-> volumeID, Timeout |-> timeout,
     Delay |-> 10, MinTimeout |-> 3]

resourceBlockStorageVolumeV1DeleteConf(volumeID, timeout) ==
    [Target |-> "deleted", Pending |-> {"deleting", "downloading", "available"},
     Refresh |-> "Volume", ID |-> volumeID, Timeout |-> timeout,
     Delay |-> 10, MinTimeout |-> 3]

resourceDNSRecordSetV2CreateConf(recordsetID, timeout) ==
    [Target |-> "ACTIVE", Pending |-> {"PENDING"}, Refresh |-> "RecordSet",
     ID |-> recordsetID, Timeout |-> timeout, Delay |-> 5, MinTimeout |-> 3]

resourceDNSRecordSetV2UpdateConf(recordsetID, timeout) ==
    [Target |-> "ACTIVE", Pending |-> {"PENDING"}, Refresh |-> "RecordSet",
     ID |-> recordsetID, Timeout |-> timeout, Delay |-> 5, MinTimeout |-> 3]

resourceDNSRecordSetV2DeleteConf(recordsetID, timeout) ==
    [Target |-> "DELETED", Pending |-> {"ACTIVE", "PENDING"}, Refresh |-> "RecordSet",
     ID |-> recordsetID, Timeout |-> timeout, Delay |-> 5, MinTimeout |-> 3]

\* dnsRecordSetV2ParseID: <zone id>/<record set id>
RecordSetIDs == {"zone1/recordset1", "recordset1"}
dnsRecordSetV2ParseID(d_id) ==
    IF d_id = "zone1/recordset1"
    THEN [zoneID |-> "zone1", recordsetID |-> "recordset1", err |-> nil]
    ELSE [zoneID |-> "", recordsetID |-> "",
          err |-> <<"Unable to determine openstack_dns_recordset_v2 ID">>]

\* answers of a request that is not retried
RequestAnswers == {"ok"} \cup GetFailures

\* resourceBlockStorageVolumeV1Read, with the answer of volumes.Get: [id, err]
resourceBlockStorageVolumeV1Read(d_id, get) ==
    IF get \in GetFailures
    THEN LET c == CheckDeleted(GetError(get),
                               "Error retrieving openstack_blockstorage_volume_v1") IN
         [id |-> IF c.cleared THEN "" ELSE d_id, err |-> c.err]
    ELSE [id |-> d_id, err |-> nil]

\* resourceDNSRecordSetV2Read, with the answer of recordsets.Get: [id, err]
resourceDNSRecordSetV2Read(d_id, get) ==
    IF dnsRecordSetV2ParseID(d_id).err # nil
    THEN [id |-> d_id, err |-> dnsRecordSetV2ParseID(d_id).err]
    ELSE IF get \in GetFailures
    THEN LET c == CheckDeleted(GetError(get), "Error retrieving openstack_dns_recordset_v2") IN
         [id |-> IF c.cleared THEN "" ELSE d_id, err |-> c.err]
    ELSE [id |-> d_id, err |-> nil]

\* answers of the GET behind each refresh function
GetAnswers(refresh) ==
    IF refresh = "LoadBalancer" THEN LBStatuses \cup GetFailures
    ELSE IF refresh = "Volume" THEN VolumeStatuses \cup GetFailures
    ELSE IF refresh = "RecordSet" THEN RecordSetStatuses \cup GetFailures
    ELSE {"found"} \cup GetFailures

Refresh(refresh, get) ==
    CASE refresh = "LoadBalancer" -> resourceLBV2LoadBalancerRefreshFunc(get)
      [] refresh = "Listener" -> resourceLBV2ListenerRefreshFunc(get)
      [] refresh = "Member" -> resourceLBV2MemberRefreshFunc(get)
      [] refresh = "Monitor" -> resourceLBV2MonitorRefreshFunc(get)
      [] refresh = "Pool" -> resourceLBV2PoolRefreshFunc(get)
      [] refresh = "L7Policy" -> resourceLBV2L7PolicyRefreshFunc(get)
      [] refresh = "Volume" -> blockStorageVolumeV1StateRefreshFunc(get)
      [] refresh = "RecordSet" -> dnsRecordSetV2RefreshFunc(get)

\* what the wait function that built the running wait returns to its caller
WaitReturn(w) ==
    CASE w.fn = "waitForLBV2LoadBalancer" -> waitForLBV2LoadBalancerReturn(w.Target, w.err)
      [] w.fn = "waitForLBV2Listener" -> waitForLBV2ListenerReturn(w.Target, w.err)
      [] w.fn = "waitForLBV2Member" -> waitForLBV2MemberReturn(w.Target, w.err)
      [] w.fn = "waitForLBV2Monitor" -> waitForLBV2MonitorReturn(w.Target, w.err)
      [] w.fn = "waitForLBV2Pool" -> waitForLBV2PoolReturn(w.Target, w.err)
      [] w.fn \in {"waitForLBV2viaListener", "waitForLBV2viaPool"} ->
            waitForLBV2LoadBalancerReturn(w.Target, w.err)
      [] w.fn = "waitForLBV2L7Policy" -> waitForLBV2L7PolicyReturn(w.Target, w.err)
      [] OTHER -> w.err    \* the operation called WaitForState itself

(***************************************************************************)
(* Inputs.                                                                 *)
(***************************************************************************)
\* (target, pending) pairs the callers of the wait helpers pass
WaitArgs ==
    { <<"ACTIVE", lbPendingStatuses>>, <<"DELETED", lbPendingDeleteStatuses>>,
      <<"ACTIVE", {}>>, <<"DELETED", {}>> }

NoOp ==
    [name |-> "", target |-> "", pending |-> {}, timeout |-> 0,
     clientErr |-> FALSE, action |-> "", redirectURL |-> "", redirectPoolID |-> "",
     status |-> "", attachments |-> 0, cidr |-> "", networks |-> <<>>,
     importID |-> <<>>, listener_id |-> <<>>,
     positionChanged |-> FALSE,
     listener |-> [ID |-> "", Loadbalancers |-> <<>>],
     pool |-> [ID |-> "", Loadbalancers |-> <<>>, Listeners |-> <<>>],
     listenerRead |-> [err |-> nil, Loadbalancers |-> <<>>]]

Init ==
    /\ pc = "idle"
    /\ op = NoOp
    /\ wait = NoWait
    /\ retry = NoRetry
    /\ log = <<>>
    /\ id = ""
    /\ ret = NotReturned

(***************************************************************************)
(* Steps of the status poll.                                               *)
(***************************************************************************)
WaitForStatePoll ==
    /\ wait.running
    /\ wait.elapsed <= wait.Timeout
    /\ \E get \in GetAnswers(wait.Refresh) :
          wait' = WaitForStateStep(wait, Refresh(wait.Refresh, get))
    /\ UNCHANGED <<pc, op, retry, log, id, ret>>

WaitForStateExpire ==
    /\ wait.running
    /\ wait.elapsed > wait.Timeout
    /\ wait' = WaitForStateTimeout(wait)
    /\ UNCHANGED <<pc, op, retry, log, id, ret>>

(***************************************************************************)
(* A caller waits on a load balancer.                                      *)
(***************************************************************************)
waitForLBV2LoadBalancer ==
    /\ pc = "idle"
    /\ \E a \in WaitArgs, t \in Timeouts(0, 1) :
          /\ op' = [NoOp EXCEPT !.name = "waitForLBV2LoadBalancer",
                                !.target = a[1], !.pending = a[2], !.timeout = t]
          /\ wait' = WaitForState("waitForLBV2LoadBalancer",
                                  waitForLBV2LoadBalancerConf("lb1", a[1], a[2], t))
    /\ pc' = "wait"
    /\ UNCHANGED <<retry, log, id, ret>>

waitForLBV2Listener ==
    /\ pc = "idle"
    /\ \E a \in WaitArgs, t \in Timeouts(1, 1), listener \in Listeners :
          LET conf == waitForLBV2ListenerConf(listener, a[1], a[2], t) IN
          /\ op' = [NoOp EXCEPT !.name = "waitForLBV2Listener", !.target = a[1],
                                !.pending = a[2], !.timeout = t, !.listener = listener]
          /\ IF conf.Refresh = ""
             THEN /\ ret' = <<"Unable to determine how to check listener status">>
                  /\ pc' = "done"
                  /\ UNCHANGED wait
             ELSE /\ wait' = WaitForState("waitForLBV2Listener", conf)
                  /\ pc' = "wait"
                  /\ UNCHANGED ret
    /\ UNCHANGED <<retry, log, id>>

\* the start of a wait on a pool, a member of it or a monitor of it
WaitViaPoolConf(fn, pool, found, target, pending, timeout) ==
    CASE fn = "waitForLBV2Member" ->
             waitForLBV2MemberConf(pool, found, target, pending, timeout)
      [] fn = "waitForLBV2Monitor" ->
             waitForLBV2MonitorConf(pool, found, target, pending, timeout)
      [] OTHER -> waitForLBV2PoolConf(pool, found, target, pending, timeout)

WaitViaPool(fn) ==
    /\ pc = "idle"
    /\ \E a \in WaitArgs, t \in Timeouts(1, 1), pool \in Pools, read \in ListenerReads :
          LET found == IF a[1] = "DELETED"
                       THEN [lbID |-> "", err |-> nil, read |-> <<>>]
                       ELSE lbV2FindLBIDviaPool(pool, read)
          IN
          /\ op' = [NoOp EXCEPT !.name = fn, !.target = a[1], !.pending = a[2],
                                !.timeout = t, !.pool = pool,
                                \* the answer of listeners.Get, when the lookup asked
                                !.listenerRead = IF Len(found.read) > 0 THEN read ELSE @]
          /\ log' = log \o ReadLog(found)
          /\ IF found.err # nil
             THEN /\ ret' = found.err
                  /\ pc' = "done"
                  /\ UNCHANGED wait
             ELSE /\ wait' = WaitForState(fn, WaitViaPoolConf(fn, pool, found, a[1], a[2], t))
                  /\ pc' = "wait"
                  /\ UNCHANGED ret
    /\ UNCHANGED <<retry, id>>

waitForLBV2Member == WaitViaPool("waitForLBV2Member")

waitForLBV2Monitor == WaitViaPool("waitForLBV2Monitor")

waitForLBV2Pool == WaitViaPool("waitForLBV2Pool")

\* the wait function returns to its caller
WaitFunctionReturn ==
    /\ pc = "wait"
    /\ WaitReturned
    /\ ret' = WaitReturn(wait)
    /\ pc' = "done"
    /\ UNCHANGED <<op, wait, retry, log, id>>

(***************************************************************************)
(* Steps shared by the operations.                                         *)
(***************************************************************************)
\* the operation returns err (nil for success) to the framework
Return(err) ==
    /\ ret' = err
    /\ pc' = "done"

\* the log entry of a wait that returned: the status it ended on, or its failure
WaitLog(w) ==
    [ev |-> "WAIT", kind |-> w.fn, on |-> w.ID,
     res |-> IF WaitReturn(w) # nil THEN "failed" ELSE IF w.err # nil THEN "gone" ELSE w.last]

\* a helper that reads, then fails or starts its wait on the load balancer
StartVia(events, fn, v, nextpc, msg) ==
    /\ log' = log \o events \o v.reads
    /\ IF v.err # nil
       THEN /\ Return(IF msg = "" THEN v.err ELSE Wrap(msg, v.err))
            /\ UNCHANGED wait
       ELSE /\ wait' = WaitForState(fn, v.conf)
            /\ pc' = nextpc
            /\ UNCHANGED ret

L7Inputs(name) ==
    { [NoOp EXCEPT !.name = name, !.clientErr = c, !.action = a, !.redirectURL = u,
                   !.redirectPoolID = p, !.timeout = t, !.positionChanged = pos] :
        c \in BOOLEAN, a \in Actions, u \in RedirectURLs, p \in RedirectPoolIDs,
        t \in Timeouts(0, 1), pos \in IF name = "resourceL7PolicyV2Update" THEN BOOLEAN ELSE {FALSE} }

(***************************************************************************)
(* resourceL7PolicyV2Create                                                *)
(***************************************************************************)
resourceL7PolicyV2Create ==
    /\ pc = "idle"
    /\ \E o \in L7Inputs("resourceL7PolicyV2Create"),
          poolRead \in PoolReads, listenerRead \in ListenerReads :
          LET verr == checkL7PolicyAction(o.action, o.redirectURL, o.redirectPoolID) IN
          /\ op' = o
          /\ IF o.clientErr
             THEN /\ Return(Wrap("Error creating OpenStack networking client", ErrOther))
                  /\ UNCHANGED <<wait, log>>
             ELSE IF verr # nil
             THEN /\ Return(Wrap("Unable to create L7 Policy", verr))
                  /\ UNCHANGED <<wait, log>>
             ELSE IF o.redirectPoolID # ""
             THEN StartVia(<<>>, "waitForLBV2viaPool", waitForLBV2viaPool(poolRead, listenerRead, "ACTIVE", {},
                                                    o.timeout),
                           "Create:pool", "Error getting pool status")
             ELSE StartVia(<<>>, "waitForLBV2viaListener", waitForLBV2viaListener(listenerRead, "ACTIVE",
                                                        lbPendingStatuses, o.timeout),
                           "Create:before", "")
    /\ UNCHANGED <<retry, id>>

\* the wait on the pool's load balancer returned
resourceL7PolicyV2Create_pool ==
    /\ pc = "Create:pool"
    /\ WaitReturned
    /\ IF WaitReturn(wait) # nil
       THEN /\ Return(Wrap("Error getting pool status", WaitReturn(wait)))
            /\ log' = Append(log, WaitLog(wait))
            /\ UNCHANGED wait
       ELSE \E listenerRead \in ListenerReads :
              StartVia(<<WaitLog(wait)>>, "waitForLBV2viaListener",
                       waitForLBV2viaListener(listenerRead, "ACTIVE", lbPendingStatuses,
                                              op.timeout),
                       "Create:before", "")
    /\ UNCHANGED <<op, retry, id>>

\* mutant: the error of the wait before the create request is not looked at
resourceL7PolicyV2Create_before_errorIgnored ==
    /\ pc = "Create:before"
    /\ WaitReturned
    /\ log' = Append(log, WaitLog(wait))
    /\ pc' = "Create:retry"
    /\ retry' = NoRetry
    /\ UNCHANGED <<op, wait, id, ret>>

\* the wait before the create request returned
resourceL7PolicyV2Create_before ==
    /\ pc = "Create:before"
    /\ WaitReturned
    /\ log' = Append(log, WaitLog(wait))
    /\ IF WaitReturn(wait) # nil
       THEN /\ Return(WaitReturn(wait))
            /\ UNCHANGED retry
       ELSE /\ pc' = "Create:retry"
            /\ retry' = NoRetry
            /\ UNCHANGED ret
    /\ UNCHANGED <<op, wait, id>>

\* one attempt of l7policies.Create inside resource.Retry
resourceL7PolicyV2Create_retry ==
    /\ pc = "Create:retry"
    /\ \E answer \in MutationAnswers, listenerRead \in ListenerReads :
          LET r == Retry(retry, op.timeout, resourceL7PolicyV2Create_f(answer),
                         MutationError(answer)) IN
          /\ retry' = r.retry
          /\ IF ~r.done
             THEN /\ log' = Append(log, Mutation("POST", "l7policy", "l7policy1", answer))
                  /\ UNCHANGED <<pc, wait, ret>>
             ELSE IF r.err # nil
             THEN /\ log' = Append(log, Mutation("POST", "l7policy", "l7policy1", answer))
                  /\ Return(Wrap("Error creating L7 Policy", r.err))
                  /\ UNCHANGED wait
             ELSE StartVia(<<Mutation("POST", "l7policy", "l7policy1", answer)>>, "waitForLBV2viaListener",
                           waitForLBV2viaListener(listenerRead, "ACTIVE", lbPendingStatuses,
                                                  op.timeout),
                           "Create:after", "")
    /\ UNCHANGED <<op, id>>

\* the wait after the create request returned; d.SetId and the closing read
\* mutant: the ID is set before the error of the wait is looked at
resourceL7PolicyV2Create_after_idFirst ==
    /\ pc = "Create:after"
    /\ WaitReturned
    /\ IF WaitReturn(wait) # nil
       THEN /\ Return(WaitReturn(wait))
            /\ log' = Append(log, WaitLog(wait))
            /\ id' = "l7policy1"
       ELSE \E get \in {"found"} \cup GetFailures :
              LET read == resourceL7PolicyV2Read("l7policy1", get) IN
              /\ id' = read.id
              /\ Return(read.err)
              /\ log' = log \o <<WaitLog(wait), Req("GET", "l7policy", "l7policy1")>>
    /\ UNCHANGED <<op, wait, retry>>

resourceL7PolicyV2Create_after ==
    /\ pc = "Create:after"
    /\ WaitReturned
    /\ IF WaitReturn(wait) # nil
       THEN /\ Return(WaitReturn(wait))
            /\ log' = Append(log, WaitLog(wait))
            /\ UNCHANGED id
       ELSE \E get \in {"found"} \cup GetFailures :
              LET read == resourceL7PolicyV2Read("l7policy1", get) IN
              /\ id' = read.id
              /\ Return(read.err)
              /\ log' = log \o <<WaitLog(wait), Req("GET", "l7policy", "l7policy1")>>
    /\ UNCHANGED <<op, wait, retry>>

(***************************************************************************)
(* resourceL7PolicyV2Update                                                *)
(***************************************************************************)
resourceL7PolicyV2Update ==
    /\ pc = "idle"
    /\ \E o \in L7Inputs("resourceL7PolicyV2Update"),
          poolRead \in PoolReads, listenerRead \in ListenerReads :
          LET verr == checkL7PolicyAction(o.action, o.redirectURL, o.redirectPoolID) IN
          /\ op' = o
          /\ id' = "l7policy1"
          /\ IF o.clientErr
             THEN /\ Return(Wrap("Error creating OpenStack networking client", ErrOther))
                  /\ UNCHANGED <<wait, log>>
             ELSE IF o.positionChanged
             THEN \* d.Get("position").(int32): the value is an int, the assertion panics
                  /\ Return(<<"panic: interface conversion: interface {} is int, not int32">>)
                  /\ UNCHANGED <<wait, log>>
             ELSE IF verr # nil
             THEN /\ Return(verr)
                  /\ UNCHANGED <<wait, log>>
             ELSE IF o.redirectPoolID # ""
             THEN StartVia(<<>>, "waitForLBV2viaPool", waitForLBV2viaPool(poolRead, listenerRead, "ACTIVE", {},
                                                    o.timeout),
                           "Update:pool", "Error getting pool status")
             ELSE StartVia(<<>>, "waitForLBV2viaListener", waitForLBV2viaListener(listenerRead, "ACTIVE",
                                                        lbPendingStatuses, o.timeout),
                           "Update:before", "")
    /\ UNCHANGED <<retry>>

resourceL7PolicyV2Update_pool ==
    /\ pc = "Update:pool"
    /\ WaitReturned
    /\ IF WaitReturn(wait) # nil
       THEN /\ Return(Wrap("Error getting pool status", WaitReturn(wait)))
            /\ log' = Append(log, WaitLog(wait))
            /\ UNCHANGED wait
       ELSE \E listenerRead \in ListenerReads :
              StartVia(<<WaitLog(wait)>>, "waitForLBV2viaListener",
                       waitForLBV2viaListener(listenerRead, "ACTIVE", lbPendingStatuses,
                                              op.timeout),
                       "Update:before", "")
    /\ UNCHANGED <<op, retry, id>>

resourceL7PolicyV2Update_before ==
    /\ pc = "Update:before"
    /\ WaitReturned
    /\ log' = Append(log, WaitLog(wait))
    /\ IF WaitReturn(wait) # nil
       THEN /\ Return(WaitReturn(wait))
            /\ UNCHANGED retry
       ELSE /\ pc' = "Update:retry"
            /\ retry' = NoRetry
            /\ UNCHANGED ret
    /\ UNCHANGED <<op, wait, id>>

\* one attempt of l7policies.Update inside resource.Retry
resourceL7PolicyV2Update_retry ==
    /\ pc = "Update:retry"
    /\ \E answer \in MutationAnswers, listenerRead \in ListenerReads :
          LET r == Retry(retry, op.timeout, resourceL7PolicyV2Update_f(answer),
                         MutationError(answer)) IN
          /\ retry' = r.retry
          /\ IF ~r.done
             THEN /\ log' = Append(log, Mutation("PUT", "l7policy", "l7policy1", answer))
                  /\ UNCHANGED <<pc, wait, ret>>
             ELSE IF r.err # nil
             THEN /\ log' = Append(log, Mutation("PUT", "l7policy", "l7policy1", answer))
                  /\ Return(Wrap("Unable to update L7 Policy", r.err))
                  /\ UNCHANGED wait
             ELSE StartVia(<<Mutation("PUT", "l7policy", "l7policy1", answer)>>, "waitForLBV2viaListener",
                           waitForLBV2viaListener(listenerRead, "ACTIVE", lbPendingStatuses,
                                                  op.timeout),
                           "Update:after", "")
    /\ UNCHANGED <<op, id>>

resourceL7PolicyV2Update_after ==
    /\ pc = "Update:after"
    /\ WaitReturned
    /\ IF WaitReturn(wait) # nil
       THEN /\ Return(WaitReturn(wait))
            /\ log' = Append(log, WaitLog(wait))
            /\ UNCHANGED id
       ELSE \E get \in {"found"} \cup GetFailures :
              LET read == resourceL7PolicyV2Read(id, get) IN
              /\ id' = read.id
              /\ Return(read.err)
              /\ log' = log \o <<WaitLog(wait), Req("GET", "l7policy", "l7policy1")>>
    /\ UNCHANGED <<op, wait, retry>>

(***************************************************************************)
(* resourceL7PolicyV2Delete                                                *)
(***************************************************************************)
resourceL7PolicyV2Delete ==
    /\ pc = "idle"
    /\ \E c \in BOOLEAN, t \in Timeouts(0, 1), listenerRead \in ListenerReads :
          /\ op' = [NoOp EXCEPT !.name = "resourceL7PolicyV2Delete", !.clientErr = c,
                                !.timeout = t]
          /\ id' = "l7policy1"
          /\ IF c
             THEN /\ Return(Wrap("Error creating OpenStack networking client", ErrOther))
                  /\ UNCHANGED <<wait, log>>
             ELSE StartVia(<<>>, "waitForLBV2viaListener", waitForLBV2viaListener(listenerRead, "ACTIVE",
                                                        lbPendingStatuses, t),
                           "Delete:before", "")
    /\ UNCHANGED <<retry>>

resourceL7PolicyV2Delete_before ==
    /\ pc = "Delete:before"
    /\ WaitReturned
    /\ log' = Append(log, WaitLog(wait))
    /\ IF WaitReturn(wait) # nil
       THEN /\ Return(WaitReturn(wait))
            /\ UNCHANGED retry
       ELSE /\ pc' = "Delete:retry"
            /\ retry' = NoRetry
            /\ UNCHANGED ret
    /\ UNCHANGED <<op, wait, id>>

\* one attempt of l7policies.Delete inside resource.Retry; then the wait on the policy
resourceL7PolicyV2Delete_retry ==
    /\ pc = "Delete:retry"
    /\ \E answer \in MutationAnswers :
          LET r == Retry(retry, op.timeout, resourceL7PolicyV2Delete_f(answer),
                         MutationError(answer)) IN
          /\ retry' = r.retry
          /\ log' = Append(log, Mutation("DELETE", "l7policy", "l7policy1", answer))
          /\ IF ~r.done
             THEN UNCHANGED <<pc, wait, ret>>
             ELSE IF r.err # nil
             THEN /\ Return(Wrap("Error deleting L7 Policy", r.err))
                  /\ UNCHANGED wait
             ELSE /\ wait' = WaitForState("waitForLBV2L7Policy",
                                          waitForLBV2L7PolicyConf(id, "DELETED", {},
                                                                  op.timeout))
                  /\ pc' = "Delete:policy"
                  /\ UNCHANGED ret
    /\ UNCHANGED <<op, id>>

\* the wait for the policy to be deleted returned
resourceL7PolicyV2Delete_policy ==
    /\ pc = "Delete:policy"
    /\ WaitReturned
    /\ IF WaitReturn(wait) # nil
       THEN /\ Return(WaitReturn(wait))
            /\ log' = Append(log, WaitLog(wait))
            /\ UNCHANGED wait
       ELSE \E listenerRead \in ListenerReads :
              StartVia(<<WaitLog(wait)>>, "waitForLBV2viaListener",
                       waitForLBV2viaListener(listenerRead, "ACTIVE", lbPendingStatuses,
                                              op.timeout),
                       "Delete:after", "")
    /\ UNCHANGED <<op, retry, id>>

resourceL7PolicyV2Delete_after ==
    /\ pc = "Delete:after"
    /\ WaitReturned
    /\ log' = Append(log, WaitLog(wait))
    /\ Return(WaitReturn(wait))
    /\ UNCHANGED <<op, wait, retry, id>>

(***************************************************************************)
(* resourceBlockStorageVolumeV1Create                                      *)
(***************************************************************************)
resourceBlockStorageVolumeV1Create ==
    /\ pc = "idle"
    /\ \E c \in BOOLEAN, t \in Timeouts(10, 3), answer \in RequestAnswers :
          /\ op' = [NoOp EXCEPT !.name = "resourceBlockStorageVolumeV1Create",
                                !.clientErr = c, !.timeout = t]
          /\ IF c
             THEN /\ Return(Wrap("Error creating OpenStack block storage client", ErrOther))
                  /\ UNCHANGED <<wait, log>>
             ELSE IF answer # "ok"
             THEN /\ Return(Wrap("Error creating openstack_blockstorage_volume_v1",
                                 GetError(answer)))
                  /\ log' = Append(log, Mutation("POST", "volume", "volume1", answer))
                  /\ UNCHANGED wait
             ELSE /\ wait' = WaitForState("resourceBlockStorageVolumeV1Create",
                                          resourceBlockStorageVolumeV1CreateConf("volume1", t))
                  /\ log' = Append(log, Mutation("POST", "volume", "volume1", answer))
                  /\ pc' = "VolumeCreate:wait"
                  /\ UNCHANGED ret
    /\ UNCHANGED <<retry, id>>

\* mutant: a volume whose wait failed is deleted again
resourceBlockStorageVolumeV1Create_wait_rollback ==
    /\ pc = "VolumeCreate:wait"
    /\ WaitReturned
    /\ IF wait.err # nil
       THEN /\ Return(Wrap("Error waiting for openstack_blockstorage_volume_v1 to become ready",
                           wait.err))
            /\ log' = log \o <<WaitLog(wait), Mutation("DELETE", "volume", "volume1", "ok")>>
            /\ UNCHANGED id
       ELSE \E get \in {"found"} \cup GetFailures :
              LET read == resourceBlockStorageVolumeV1Read("volume1", get) IN
              /\ id' = read.id
              /\ Return(read.err)
              /\ log' = log \o <<WaitLog(wait), Req("GET", "volume", "volume1")>>
    /\ UNCHANGED <<op, wait, retry>>

\* the wait returned; d.SetId and the closing read
resourceBlockStorageVolumeV1Create_wait ==
    /\ pc = "VolumeCreate:wait"
    /\ WaitReturned
    /\ IF wait.err # nil
       THEN /\ Return(Wrap("Error waiting for openstack_blockstorage_volume_v1 to become ready",
                           wait.err))
            /\ log' = Append(log, WaitLog(wait))
            /\ UNCHANGED id
       ELSE \E get \in {"found"} \cup GetFailures :
              LET read == resourceBlockStorageVolumeV1Read("volume1", get) IN
              /\ id' = read.id
              /\ Return(read.err)
              /\ log' = log \o <<WaitLog(wait), Req("GET", "volume", "volume1")>>
    /\ UNCHANGED <<op, wait, retry>>

(***************************************************************************)
(* resourceBlockStorageVolumeV1Delete                                      *)
(***************************************************************************)
\* numbers of attachments the volume read can report
Attachments == {0, 2}

\* mutant: the delete request is sent whatever the status read
VolumeDeleteRequest_alwaysDelete(o, events) ==
    \E answer \in RequestAnswers, t \in Timeouts(10, 3) :
       LET deleted == CheckDeleted(GetError(answer),
                                   "Error deleting openstack_blockstorage_volume_v1")
       IN
       IF answer # "ok"
       THEN /\ Return(deleted.err)
            /\ id' = IF deleted.cleared THEN "" ELSE "volume1"
            /\ log' = log \o events \o <<Mutation("DELETE", "volume", "volume1", answer)>>
            /\ op' = o
            /\ UNCHANGED wait
       ELSE /\ wait' = WaitForState("resourceBlockStorageVolumeV1Delete",
                                    resourceBlockStorageVolumeV1DeleteConf("volume1", t))
            /\ log' = log \o events \o <<Mutation("DELETE", "volume", "volume1", "ok")>>
            /\ op' = [o EXCEPT !.timeout = t]
            /\ id' = "volume1"
            /\ pc' = "VolumeDelete:wait"
            /\ UNCHANGED ret

\* the delete request, skipped for a volume that is already deleting, and the start
\* of the wait for the volume to be deleted; events are logged in front
VolumeDeleteRequest(o, events) ==
    \E answer \in RequestAnswers, t \in Timeouts(10, 3) :
       LET deleted == CheckDeleted(GetError(answer),
                                   "Error deleting openstack_blockstorage_volume_v1")
       IN
       IF o.status # "deleting" /\ answer # "ok"
       THEN /\ Return(deleted.err)
            /\ id' = IF deleted.cleared THEN "" ELSE "volume1"
            /\ log' = log \o events \o <<Mutation("DELETE", "volume", "volume1", answer)>>
            /\ op' = o
            /\ UNCHANGED wait
       ELSE /\ wait' = WaitForState("resourceBlockStorageVolumeV1Delete",
                                    resourceBlockStorageVolumeV1DeleteConf("volume1", t))
            /\ log' = log \o events \o
                         (IF o.status # "deleting"
                          THEN <<Mutation("DELETE", "volume", "volume1", "ok")>> ELSE <<>>)
            /\ op' = [o EXCEPT !.timeout = t]
            /\ id' = "volume1"
            /\ pc' = "VolumeDelete:wait"
            /\ UNCHANGED ret

resourceBlockStorageVolumeV1Delete ==
    /\ pc = "idle"
    /\ \E c \in BOOLEAN, get \in VolumeStatuses \cup GetFailures, n \in Attachments,
          computeErr \in BOOLEAN, detached \in 0..2 :
          LET o == [NoOp EXCEPT !.name = "resourceBlockStorageVolumeV1Delete",
                                !.clientErr = c,
                                !.status = IF c \/ get \in GetFailures THEN "" ELSE get,
                                !.attachments = IF c \/ get \in GetFailures THEN 0 ELSE n]
              read == <<Req("GET", "volume", "volume1")>>
              deleted == CheckDeleted(GetError(get),
                                      "Error retrieving openstack_blockstorage_volume_v1")
              \* the detach requests sent: all of them, or up to the first that fails
              detaches == [i \in 1..(IF detached < n THEN detached + 1 ELSE n) |->
                             Mutation("DELETE", "attachment", "volume1",
                                      IF i <= detached THEN "ok" ELSE "500")]
          IN
          IF c
          THEN /\ Return(Wrap("Error creating OpenStack block storage client", ErrOther))
               /\ op' = o
               /\ id' = "volume1"
               /\ UNCHANGED <<wait, log>>
          ELSE IF get \in GetFailures
          THEN /\ Return(deleted.err)
               /\ op' = o
               /\ id' = IF deleted.cleared THEN "" ELSE "volume1"
               /\ log' = log \o read
               /\ UNCHANGED wait
          ELSE IF n > 0 /\ computeErr
          THEN /\ Return(Wrap("Error creating OpenStack compute client", ErrOther))
               /\ op' = o
               /\ id' = "volume1"
               /\ log' = log \o read
               /\ UNCHANGED wait
          ELSE IF n > 0 /\ detached < n
          THEN /\ Return(Wrap("Error detaching openstack_blockstorage_volume_v1", ErrOther))
               /\ op' = o
               /\ id' = "volume1"
               /\ log' = log \o read \o detaches
               /\ UNCHANGED wait
          ELSE IF n > 0
          THEN /\ wait' = WaitForState("resourceBlockStorageVolumeV1Delete:detach",
                                       resourceBlockStorageVolumeV1DetachConf("volume1"))
               /\ op' = o
               /\ id' = "volume1"
               /\ log' = log \o read \o detaches
               /\ pc' = "VolumeDelete:detach"
               /\ UNCHANGED ret
          ELSE VolumeDeleteRequest(o, read)
    /\ UNCHANGED retry

\* mutant: the error of the wait for the volume to be detached is not looked at
resourceBlockStorageVolumeV1Delete_detach_errorIgnored ==
    /\ pc = "VolumeDelete:detach"
    /\ WaitReturned
    /\ VolumeDeleteRequest(op, <<WaitLog(wait)>>)
    /\ UNCHANGED retry

\* the wait for the volume to be detached returned; then the delete request
resourceBlockStorageVolumeV1Delete_detach ==
    /\ pc = "VolumeDelete:detach"
    /\ WaitReturned
    /\ IF wait.err # nil
       THEN /\ Return(Wrap("Error waiting for openstack_blockstorage_volume_v1 to become available",
                           wait.err))
            /\ log' = Append(log, WaitLog(wait))
            /\ UNCHANGED <<op, wait, id>>
       ELSE VolumeDeleteRequest(op, <<WaitLog(wait)>>)
    /\ UNCHANGED retry

\* the wait for the volume to be deleted returned
resourceBlockStorageVolumeV1Delete_wait ==
    /\ pc = "VolumeDelete:wait"
    /\ WaitReturned
    /\ Return(IF wait.err # nil
              THEN Wrap("Error waiting for openstack_blockstorage_volume_v1 to delete",
                        wait.err)
              ELSE nil)
    /\ log' = Append(log, WaitLog(wait))
    /\ UNCHANGED <<op, wait, retry, id>>

(***************************************************************************)
(* resourceDNSRecordSetV2Create, Update, Delete                            *)
(***************************************************************************)
resourceDNSRecordSetV2Create ==
    /\ pc = "idle"
    /\ \E c \in BOOLEAN, t \in Timeouts(5, 3), answer \in RequestAnswers :
          /\ op' = [NoOp EXCEPT !.name = "resourceDNSRecordSetV2Create",
                                !.clientErr = c, !.timeout = t]
          /\ IF c
             THEN /\ Return(Wrap("Error creating OpenStack DNS client", ErrOther))
                  /\ UNCHANGED <<wait, log>>
             ELSE IF answer # "ok"
             THEN /\ Return(Wrap("Error creating openstack_dns_recordset_v2",
                                 GetError(answer)))
                  /\ log' = Append(log, Mutation("POST", "recordset", "recordset1", answer))
                  /\ UNCHANGED wait
             ELSE /\ wait' = WaitForState("resourceDNSRecordSetV2Create",
                                          resourceDNSRecordSetV2CreateConf("recordset1", t))
                  /\ log' = Append(log, Mutation("POST", "recordset", "recordset1", answer))
                  /\ pc' = "DNSCreate:wait"
                  /\ UNCHANGED ret
    /\ UNCHANGED <<retry, id>>

\* the wait returned: its error is assigned and not looked at; d.SetId and the read
resourceDNSRecordSetV2Create_wait ==
    /\ pc = "DNSCreate:wait"
    /\ WaitReturned
    /\ \E get \in {"found"} \cup GetFailures :
          LET read == resourceDNSRecordSetV2Read("zone1/recordset1", get) IN
          /\ id' = read.id
          /\ Return(read.err)
          /\ log' = log \o <<WaitLog(wait), Req("GET", "recordset", "recordset1")>>
    /\ UNCHANGED <<op, wait, retry>>

resourceDNSRecordSetV2Update ==
    /\ pc = "idle"
    /\ \E c \in BOOLEAN, t \in Timeouts(5, 3), answer \in RequestAnswers,
          d_id \in RecordSetIDs :
          LET parsed == dnsRecordSetV2ParseID(d_id) IN
          /\ op' = [NoOp EXCEPT !.name = "resourceDNSRecordSetV2Update",
                                !.clientErr = c, !.timeout = t]
          /\ id' = d_id
          /\ IF c
             THEN /\ Return(Wrap("Error creating OpenStack DNS client", ErrOther))
                  /\ UNCHANGED <<wait, log>>
             ELSE IF parsed.err # nil
             THEN /\ Return(parsed.err)
                  /\ UNCHANGED <<wait, log>>
             ELSE IF answer # "ok"
             THEN /\ Return(Wrap("Error updating openstack_dns_recordset_v2",
                                 GetError(answer)))
                  /\ log' = Append(log, Mutation("PUT", "recordset", parsed.recordsetID, answer))
                  /\ UNCHANGED wait
             ELSE /\ wait' = WaitForState("resourceDNSRecordSetV2Update",
                                          resourceDNSRecordSetV2UpdateConf(parsed.recordsetID, t))
                  /\ log' = Append(log, Mutation("PUT", "recordset", parsed.recordsetID, answer))
                  /\ pc' = "DNSUpdate:wait"
                  /\ UNCHANGED ret
    /\ UNCHANGED <<retry>>

\* the wait returned: its error is assigned and not looked at; the read
resourceDNSRecordSetV2Update_wait ==
    /\ pc = "DNSUpdate:wait"
    /\ WaitReturned
    /\ \E get \in {"found"} \cup GetFailures :
          LET read == resourceDNSRecordSetV2Read(id, get) IN
          /\ id' = read.id
          /\ Return(read.err)
          /\ log' = log \o <<WaitLog(wait), Req("GET", "recordset", "recordset1")>>
    /\ UNCHANGED <<op, wait, retry>>

resourceDNSRecordSetV2Delete ==
    /\ pc = "idle"
    /\ \E c \in BOOLEAN, t \in Timeouts(5, 3), answer \in RequestAnswers,
          d_id \in RecordSetIDs :
          LET parsed == dnsRecordSetV2ParseID(d_id)
              deleted == CheckDeleted(GetError(answer),
                                      "Error deleting openstack_dns_recordset_v2")
          IN
          /\ op' = [NoOp EXCEPT !.name = "resourceDNSRecordSetV2Delete",
                                !.clientErr = c, !.timeout = t]
          /\ IF c
             THEN /\ Return(Wrap("Error creating OpenStack DNS client", ErrOther))
                  /\ id' = d_id
                  /\ UNCHANGED <<wait, log>>
             ELSE IF parsed.err # nil
             THEN /\ Return(parsed.err)
                  /\ id' = d_id
                  /\ UNCHANGED <<wait, log>>
             ELSE IF answer # "ok"
             THEN /\ Return(deleted.err)
                  /\ id' = IF deleted.cleared THEN "" ELSE d_id
                  /\ log' = Append(log, Mutation("DELETE", "recordset", parsed.recordsetID, answer))
                  /\ UNCHANGED wait
             ELSE /\ wait' = WaitForState("resourceDNSRecordSetV2Delete",
                                          resourceDNSRecordSetV2DeleteConf(parsed.recordsetID, t))
                  /\ id' = d_id
                  /\ log' = Append(log, Mutation("DELETE", "recordset", parsed.recordsetID, answer))
                  /\ pc' = "DNSDelete:wait"
                  /\ UNCHANGED ret
    /\ UNCHANGED <<retry>>

\* the wait returned: its error is assigned and not looked at; the operation returns nil
resourceDNSRecordSetV2Delete_wait ==
    /\ pc = "DNSDelete:wait"
    /\ WaitReturned
    /\ Return(nil)
    /\ log' = Append(log, WaitLog(wait))
    /\ UNCHANGED <<op, wait, retry, id>>

(***************************************************************************)
(* dataSourceNetworkingNetworkV2Read                                       *)
(***************************************************************************)
MaxNetworks == 2
MaxSubnets == 2

\* what subnets.Get gives for a subnet: its CIDR, or a failure
CIDRs == {"10.0.0.0/24", "10.0.1.0/24"}
SubnetReads == CIDRs \cup GetFailures

SeqsUpTo(S, n) == UNION {[1..k -> S] : k \in 0..n}

NetworkID(i) == <<"network1", "network2", "network3", "network4">>[i]

\* the networks networks.List can return: each with the reads of its subnets
NetworkLists ==
    { [i \in 1..Len(subs) |-> [ID |-> NetworkID(i), Subnets |-> subs[i]]] :
        subs \in SeqsUpTo(SeqsUpTo(SubnetReads, MaxSubnets), MaxNetworks) }

\* the subnets of the networks in the order the two loops visit them
RECURSIVE SubnetVisits(_)
SubnetVisits(allNetworks) ==
    IF allNetworks = <<>> THEN <<>>
    ELSE LET n == Head(allNetworks) IN
         [i \in 1..Len(n.Subnets) |-> [network |-> n.ID, read |-> n.Subnets[i]]]
            \o SubnetVisits(Tail(allNetworks))

\* the loops over allNetworks and n.Subnets: [refinedNetworks, err, reads]
RefineNetworks(allNetworks, cidr) ==
    LET visits == SubnetVisits(allNetworks)
        failed == {i \in 1..Len(visits) :
                     visits[i].read \in GetFailures /\ visits[i].read # "404"}
        \* the loops stop at the first read that fails other than with not-found
        last == IF failed = {} THEN Len(visits)
                ELSE CHOOSE i \in failed : \A j \in failed : i <= j
        done == SubSeq(visits, 1, last)
        matching == SelectSeq(done, LAMBDA v : v.read = cidr)
    IN
    [refinedNetworks |-> [i \in 1..Len(matching) |-> matching[i].network],
     err |-> IF failed = {} THEN nil
             ELSE Wrap("Unable to retrieve network subnet", GetError(visits[last].read)),
     reads |-> [i \in 1..Len(done) |-> Mutation("GET", "subnet", done[i].network, done[i].read)]]

\* what the List call gives: with a client whose construction failed the request
\* cannot succeed, it fails or the nil client is dereferenced
ListAnswers(clientErr) == IF clientErr THEN {"500", "panic"} ELSE {"ok", "500", "malformed"}

dataSourceNetworkingNetworkV2Read ==
    /\ pc = "idle"
    /\ \E c \in BOOLEAN, cidr \in {""} \cup CIDRs, allNetworks \in NetworkLists :
       \E list \in ListAnswers(c) :
          LET listed == list = "ok"
              refined == IF cidr # "" THEN RefineNetworks(allNetworks, cidr)
                         ELSE [refinedNetworks |-> [i \in 1..Len(allNetworks) |->
                                                       allNetworks[i].ID],
                               err |-> nil, reads |-> <<>>]
              call == <<Mutation("GET", "networks", "", list)>>
          IN
          /\ op' = [NoOp EXCEPT !.name = "dataSourceNetworkingNetworkV2Read",
                                !.clientErr = c,
                                !.cidr = IF listed THEN cidr ELSE "",
                                !.networks = IF listed THEN allNetworks ELSE <<>>]
          /\ IF list = "panic"
             THEN /\ Return(<<"panic: runtime error: invalid memory address or nil pointer dereference">>)
                  /\ log' = log \o call
                  /\ UNCHANGED id
             ELSE IF list = "500"
             THEN /\ Return(ErrOther)
                  /\ log' = log \o call
                  /\ UNCHANGED id
             ELSE IF list = "malformed"
             THEN /\ Return(Wrap("Unable to retrieve networks", ErrOther))
                  /\ log' = log \o call
                  /\ UNCHANGED id
             ELSE IF refined.err # nil
             THEN /\ Return(refined.err)
                  /\ log' = log \o call \o refined.reads
                  /\ UNCHANGED id
             ELSE IF Len(refined.refinedNetworks) < 1
             THEN /\ Return(<<"Your query returned no results">>)
                  /\ log' = log \o call \o refined.reads
                  /\ UNCHANGED id
             ELSE IF Len(refined.refinedNetworks) > 1
             THEN /\ Return(<<"Your query returned more than one result">>)
                  /\ log' = log \o call \o refined.reads
                  /\ UNCHANGED id
             ELSE /\ Return(nil)
                  /\ log' = log \o call \o refined.reads
                  /\ id' = refined.refinedNetworks[1]
    /\ UNCHANGED <<wait, retry>>

(***************************************************************************)
(* Read of the three resources and Update of the volume, called by the     *)
(* framework as operations of their own.                                   *)
(***************************************************************************)
resourceBlockStorageVolumeV1Read_entry ==
    /\ pc = "idle"
    /\ \E c \in BOOLEAN, get \in {"found"} \cup GetFailures :
          LET read == resourceBlockStorageVolumeV1Read("volume1", get) IN
          /\ op' = [NoOp EXCEPT !.name = "resourceBlockStorageVolumeV1Read", !.clientErr = c]
          /\ IF c
             THEN /\ Return(Wrap("Error creating OpenStack block storage client", ErrOther))
                  /\ id' = "volume1"
                  /\ UNCHANGED log
             ELSE /\ Return(read.err)
                  /\ id' = read.id
                  /\ log' = Append(log, Req("GET", "volume", "volume1"))
    /\ UNCHANGED <<wait, retry>>

\* the update request, not followed by a wait, and the closing read
resourceBlockStorageVolumeV1Update ==
    /\ pc = "idle"
    /\ \E c \in BOOLEAN, answer \in RequestAnswers, get \in {"found"} \cup GetFailures :
          LET read == resourceBlockStorageVolumeV1Read("volume1", get)
              update == Mutation("PUT", "volume", "volume1", answer)
          IN
          /\ op' = [NoOp EXCEPT !.name = "resourceBlockStorageVolumeV1Update", !.clientErr = c]
          /\ IF c
             THEN /\ Return(Wrap("Error creating OpenStack block storage client", ErrOther))
                  /\ id' = "volume1"
                  /\ UNCHANGED log
             ELSE IF answer # "ok"
             THEN /\ Return(Wrap("Error updating openstack_blockstorage_volume_v1",
                                 GetError(answer)))
                  /\ id' = "volume1"
                  /\ log' = Append(log, update)
             ELSE /\ Return(read.err)
                  /\ id' = read.id
                  /\ log' = log \o <<update, Req("GET", "volume", "volume1")>>
    /\ UNCHANGED <<wait, retry>>

resourceDNSRecordSetV2Read_entry ==
    /\ pc = "idle"
    /\ \E c \in BOOLEAN, d_id \in RecordSetIDs, get \in {"found"} \cup GetFailures :
          LET read == resourceDNSRecordSetV2Read(d_id, get) IN
          /\ op' = [NoOp EXCEPT !.name = "resourceDNSRecordSetV2Read", !.clientErr = c]
          /\ IF c
             THEN /\ Return(Wrap("Error creating OpenStack DNS client", ErrOther))
                  /\ id' = d_id
                  /\ UNCHANGED log
             ELSE /\ Return(read.err)
                  /\ id' = read.id
                  /\ log' = IF dnsRecordSetV2ParseID(d_id).err # nil THEN log
                            ELSE Append(log, Req("GET", "recordset", "recordset1"))
    /\ UNCHANGED <<wait, retry>>

resourceL7PolicyV2Read_entry ==
    /\ pc = "idle"
    /\ \E c \in BOOLEAN, get \in {"found"} \cup GetFailures :
          LET read == resourceL7PolicyV2Read("l7policy1", get) IN
          /\ op' = [NoOp EXCEPT !.name = "resourceL7PolicyV2Read", !.clientErr = c]
          /\ IF c
             THEN /\ Return(Wrap("Error creating OpenStack networking client", ErrOther))
                  /\ id' = "l7policy1"
                  /\ UNCHANGED log
             ELSE /\ Return(read.err)
                  /\ id' = read.id
                  /\ log' = Append(log, Req("GET", "l7policy", "l7policy1"))
    /\ UNCHANGED <<wait, retry>>

(***************************************************************************)
(* resourceL7PolicyV2Import.  An ID is a sequence of characters.           *)
(***************************************************************************)
MaxIDLen == 4
IDChars == {"a", "b", "/"}
ImportIDs == SeqsUpTo(IDChars, MaxIDLen)

\* strings.Index for a separator of one character: 0 when s does not contain it
Index(s, sep) ==
    IF \E i \in 1..Len(s) : s[i] = sep
    THEN CHOOSE i \in 1..Len(s) : s[i] = sep /\ \A j \in 1..(i - 1) : s[j] # sep
    ELSE 0

\* mutant: the string is cut at its last separator
SplitN_lastSeparator(s, sep, n) ==
    IF \E i \in 1..Len(s) : s[i] = sep
    THEN LET i == CHOOSE k \in 1..Len(s) : s[k] = sep /\ \A j \in (k + 1)..Len(s) : s[j] # sep
         IN <<SubSeq(s, 1, i - 1), SubSeq(s, i + 1, Len(s))>>
    ELSE <<s>>

\* strings.SplitN for n > 0: at most n parts, the last one the unsplit remainder
RECURSIVE SplitN(_, _, _)
SplitN(s, sep, n) ==
    IF n = 1 \/ Index(s, sep) = 0 THEN <<s>>
    ELSE <<SubSeq(s, 1, Index(s, sep) - 1)>>
            \o SplitN(SubSeq(s, Index(s, sep) + 1, Len(s)), sep, n - 1)

resourceL7PolicyV2Import ==
    /\ pc = "idle"
    /\ \E d_id \in ImportIDs :
          LET parts == SplitN(d_id, "/", 2) IN
          IF Len(parts) # 2
          THEN /\ op' = [NoOp EXCEPT !.name = "resourceL7PolicyV2Import", !.importID = d_id]
               /\ Return(<<"Invalid format specified for l7 Policy. Format must be <listener id>/<l7Policy id>">>)
               /\ id' = d_id
          ELSE /\ op' = [NoOp EXCEPT !.name = "resourceL7PolicyV2Import", !.importID = d_id,
                                     !.listener_id = parts[1]]
               /\ Return(nil)
               /\ id' = parts[2]
    /\ UNCHANGED <<wait, retry, log>>

(***************************************************************************)
(* Two callers create an L7 policy on the same listener at the same time.  *)
(* Each caller runs resourceL7PolicyV2Create with a valid action and no    *)
(* redirect pool; its wait, its retry and its result are its own.  The     *)
(* control plane takes one mutation of the load balancer at a time: a      *)
(* request that finds the load balancer ACTIVE is accepted and makes it    *)
(* PENDING_UPDATE, a request that finds it pending is answered with the    *)
(* conflict error, and a pending load balancer returns to ACTIVE.  In this *)
(* specification every variable but log and op holds one value per caller, *)
(* and op holds the load balancer's status and the configured timeout.     *)
(***************************************************************************)
Callers == {1, 2}

\* the listener both callers name, as listeners.Get returns it
RaceListener == [err |-> nil, Loadbalancers |-> <<"lb1", "lb2">>]

\* the answer of the control plane to a mutation of a load balancer in status lb
ControlPlaneAnswer(lb) == IF lb = "ACTIVE" THEN "ok" ELSE "conflict"

RaceInit ==
    /\ pc = [c \in Callers |-> "idle"]
    /\ \E t \in Timeouts(0, 1), lb \in {"ACTIVE", "PENDING_UPDATE"} :
          op = [lb |-> lb, timeout |-> t]
    /\ wait = [c \in Callers |-> NoWait]
    /\ retry = [c \in Callers |-> NoRetry]
    /\ log = <<>>
    /\ id = [c \in Callers |-> ""]
    /\ ret = [c \in Callers |-> NotReturned]

\* caller c starts a wait on the load balancer of the listener
RaceWaitViaListener(c, nextpc) ==
    LET v == waitForLBV2viaListener(RaceListener, "ACTIVE", lbPendingStatuses, op.timeout)
    IN
    /\ wait' = [wait EXCEPT ![c] = WaitForState("waitForLBV2viaListener", v.conf)]
    /\ pc' = [pc EXCEPT ![c] = nextpc]

\* caller c enters Create: the validation passes and the first wait starts
Race_resourceL7PolicyV2Create(c) ==
    /\ pc[c] = "idle"
    /\ RaceWaitViaListener(c, "Create:before")
    /\ UNCHANGED <<op, retry, log, id, ret>>

\* one fetch of the wait of caller c: it reads the status the load balancer has now
Race_WaitForStatePoll(c) ==
    /\ wait[c].running
    /\ wait[c].elapsed <= wait[c].Timeout
    /\ wait' = [wait EXCEPT
                  ![c] = WaitForStateStep(@, resourceLBV2LoadBalancerRefreshFunc(op.lb))]
    /\ UNCHANGED <<pc, op, retry, log, id, ret>>

Race_WaitForStateExpire(c) ==
    /\ wait[c].running
    /\ wait[c].elapsed > wait[c].Timeout
    /\ wait' = [wait EXCEPT ![c] = WaitForStateTimeout(@)]
    /\ UNCHANGED <<pc, op, retry, log, id, ret>>

\* the wait before the create request of caller c returned
Race_resourceL7PolicyV2Create_before(c) ==
    /\ pc[c] = "Create:before"
    /\ wait[c].fn # "" /\ ~wait[c].running
    /\ IF WaitReturn(wait[c]) # nil
       THEN /\ ret' = [ret EXCEPT ![c] = WaitReturn(wait[c])]
            /\ pc' = [pc EXCEPT ![c] = "done"]
            /\ UNCHANGED retry
       ELSE /\ pc' = [pc EXCEPT ![c] = "Create:retry"]
            /\ retry' = [retry EXCEPT ![c] = NoRetry]
            /\ UNCHANGED ret
    /\ UNCHANGED <<op, wait, log, id>>

\* one attempt of l7policies.Create of caller c inside resource.Retry
Race_resourceL7PolicyV2Create_retry(c) ==
    /\ pc[c] = "Create:retry"
    /\ LET answer == ControlPlaneAnswer(op.lb)
           r == Retry(retry[c], op.timeout, resourceL7PolicyV2Create_f(answer),
                      MutationError(answer))
       IN
       /\ retry' = [retry EXCEPT ![c] = r.retry]
       /\ log' = Append(log, [ev |-> "POST", kind |-> "l7policy", on |-> c, res |-> answer])
       /\ op' = IF answer = "ok" THEN [op EXCEPT !.lb = "PENDING_UPDATE"] ELSE op
       /\ IF ~r.done
          THEN UNCHANGED <<pc, wait, ret>>
          ELSE IF r.err # nil
          THEN /\ ret' = [ret EXCEPT ![c] = Wrap("Error creating L7 Policy", r.err)]
               /\ pc' = [pc EXCEPT ![c] = "done"]
               /\ UNCHANGED wait
          ELSE /\ RaceWaitViaListener(c, "Create:after")
               /\ UNCHANGED ret
    /\ UNCHANGED id

\* the wait after the create request of caller c returned; d.SetId and the read
Race_resourceL7PolicyV2Create_after(c) ==
    /\ pc[c] = "Create:after"
    /\ wait[c].fn # "" /\ ~wait[c].running
    /\ IF WaitReturn(wait[c]) # nil
       THEN /\ ret' = [ret EXCEPT ![c] = WaitReturn(wait[c])]
            /\ UNCHANGED id
       ELSE LET read == resourceL7PolicyV2Read("l7policy1", "found") IN
            /\ id' = [id EXCEPT ![c] = read.id]
            /\ ret' = [ret EXCEPT ![c] = read.err]
    /\ pc' = [pc EXCEPT ![c] = "done"]
    /\ UNCHANGED <<op, wait, retry, log>>

\* the control plane finishes the mutation in flight
ControlPlaneSettles ==
    /\ op.lb = "PENDING_UPDATE"
    /\ op' = [op EXCEPT !.lb = "ACTIVE"]
    /\ UNCHANGED <<pc, wait, retry, log, id, ret>>

RaceNext ==
    \/ \E c \in Callers : Race_resourceL7PolicyV2Create(c)
    \/ \E c \in Callers : Race_WaitForStatePoll(c)
    \/ \E c \in Callers : Race_WaitForStateExpire(c)
    \/ \E c \in Callers : Race_resourceL7PolicyV2Create_before(c)
    \/ \E c \in Callers : Race_resourceL7PolicyV2Create_retry(c)
    \/ \E c \in Callers : Race_resourceL7PolicyV2Create_after(c)
    \/ ControlPlaneSettles

\* every caller keeps running and the control plane finishes what it accepted
SpecRace == RaceInit /\ [][RaceNext]_vars /\ WF_vars(RaceNext)

(***************************************************************************)
(* Properties.                                                             *)
(***************************************************************************)
WaitFunctions ==
    {"waitForLBV2LoadBalancer", "waitForLBV2Listener", "waitForLBV2Member",
     "waitForLBV2Monitor", "waitForLBV2Pool"}

\* a caller called one of the wait functions itself, and its wait is or was polling
InWaitFunction == op.name \in WaitFunctions /\ wait.fn = op.name

\* the target and the pending set the caller of the running wait asked for
AskedTarget == IF InWaitFunction THEN op.target ELSE wait.Target
AskedPending == IF InWaitFunction THEN op.pending ELSE wait.Pending

\* the poll of a wait that has returned is never resumed: the record of the wait
\* changes only when another wait starts
NoFetchAfterReturn ==
    [][(wait.fn # "" /\ ~wait.running) => (wait' = wait \/ wait'.fetches = 0)]_vars

\* C1: a wait with target T and pending set P, T not in P, whose fetches returned k
\* pending statuses and then T has stopped polling, has made exactly k+1 fetches,
\* returns success to its caller, and makes no fetch afterwards.
C1_PollsUntilTarget ==
    /\ [](( /\ wait.fn # ""
            /\ AskedTarget \notin AskedPending
            /\ wait.last = AskedTarget )
          => /\ ~wait.running
             /\ wait.fetches = wait.npending + 1
             /\ WaitReturn(wait) = nil
             /\ (InWaitFunction /\ pc = "done" => ret = nil))
    /\ NoFetchAfterReturn

C1_Witness ==
    /\ op.name = "waitForLBV2LoadBalancer"
    /\ pc = "done"
    /\ wait.last = op.target
    /\ wait.npending = 2
    /\ wait.fetches = 3
    /\ ret = nil

\* C2: once a fetch has returned a status that is neither the target nor in the
\* pending set, the wait has stopped polling and returns an error to its caller; no
\* fetch follows and the wait does not return success.
C2_UnexpectedStatusFails ==
    /\ [](( /\ wait.fn # ""
            /\ wait.last # ""
            /\ wait.last # AskedTarget
            /\ wait.last \notin AskedPending )
          => /\ ~wait.running
             /\ WaitReturn(wait) # nil
             /\ (InWaitFunction /\ pc = "done" => ret # nil))
    /\ NoFetchAfterReturn

C2_Witness ==
    /\ op.name = "waitForLBV2LoadBalancer"
    /\ pc = "done"
    /\ op.target = "ACTIVE"
    /\ wait.last = "ERROR"
    /\ wait.npending = 1
    /\ wait.fetches = 2
    /\ ret # nil

\* the first fetch of the running wait reported not-found
FirstFetchNotFound == wait.fn # "" /\ wait.fetches = 1 /\ wait.err = ErrDefault404

\* C3: when the target is DELETED and the first fetch reports not-found, each of the
\* five wait functions has stopped after that one fetch and returns success.
C3_DeletedNotFoundSucceeds ==
    (InWaitFunction /\ op.target = "DELETED" /\ FirstFetchNotFound)
        => /\ ~wait.running
           /\ WaitReturn(wait) = nil
           /\ (pc = "done" => ret = nil)

C3_Witness ==
    /\ op.name = "waitForLBV2Pool"
    /\ op.target = "DELETED"
    /\ FirstFetchNotFound
    /\ pc = "done"
    /\ ret = nil

\* C4: a wait whose fetch reported not-found returns success only when its target is
\* DELETED; for any other target every wait function returns an error, and
\* waitForLBV2LoadBalancer the error that says the load balancer was not found.
C4_NotFoundFailsUnlessDeleted ==
    (wait.fn # "" /\ wait.err = ErrDefault404)
        => /\ ~wait.running
           /\ (WaitReturn(wait) = nil <=> AskedTarget = "DELETED")
           /\ (InWaitFunction /\ pc = "done" => (ret = nil <=> op.target = "DELETED"))
           /\ ( /\ op.name = "waitForLBV2LoadBalancer"
                /\ pc = "done"
                /\ op.target # "DELETED" )
              => ret = <<"Error: loadbalancer not found", "ErrDefault404">>

C4_Witness ==
    /\ op.name = "waitForLBV2Member"
    /\ op.target = "ACTIVE"
    /\ wait.err = ErrDefault404
    /\ wait.fetches = 2
    /\ pc = "done"
    /\ ret # nil

Max(a, b) == IF a >= b THEN a ELSE b

\* the error a wait function or a WaitForState call gives back ends in err
EndsIn(full, err) ==
    /\ Len(full) >= Len(err)
    /\ SubSeq(full, Len(full) - Len(err) + 1, Len(full)) = err

\* no fetch of the running wait was made after its timeout had elapsed
FetchesWithinTimeout ==
    wait.fetches >= 1 => wait.Delay + (wait.fetches - 1) * wait.MinTimeout <= wait.Timeout

\* a wait all of whose fetches returned a pending status has returned
ReturnedAllPending == wait.fn # "" /\ ~wait.running /\ wait.fetches = wait.npending

L7Operations ==
    {"resourceL7PolicyV2Create", "resourceL7PolicyV2Update", "resourceL7PolicyV2Delete"}

\* a mutating request of an L7 policy operation
IsMutation(e) == e.ev \in {"POST", "PUT", "DELETE"} /\ e.kind = "l7policy"

\* C6: in the L7 policy operations a mutating request is followed by another one only
\* if it was answered with the conflict error; a request answered with any other
\* error is the last thing the operation does, and the operation fails; a request
\* that succeeded is not repeated; a wait that failed is not repeated either: it is
\* the last thing the operation does, and the operation fails.
C6_RetryOnlyOnConflict ==
    op.name \in L7Operations =>
        /\ \A i \in 1..Len(log) :
              IsMutation(log[i]) =>
                 /\ (\E j \in (i + 1)..Len(log) : IsMutation(log[j]))
                       => log[i].res = "conflict"
                 /\ log[i].res = "failed"
                       => i = Len(log) /\ pc = "done" /\ ret # nil
                 /\ log[i].res = "ok"
                       => \A j \in (i + 1)..Len(log) : ~IsMutation(log[j])
        /\ \A i \in 1..Len(log) :
              (log[i].ev = "WAIT" /\ log[i].res = "failed")
                 => i = Len(log) /\ pc = "done" /\ ret # nil
        /\ wait.err # nil => ~wait.running
        /\ wait.running => pc \notin {"Create:retry", "Update:retry", "Delete:retry"}

C6_Witness ==
    /\ op.name = "resourceL7PolicyV2Create"
    /\ pc = "done"
    /\ Len(log) >= 2
    /\ log[Len(log) - 1].ev = "POST" /\ log[Len(log) - 1].res = "conflict"
    /\ log[Len(log)].ev = "POST" /\ log[Len(log)].res = "failed"
    /\ ret = <<"Error creating L7 Policy", "ErrFailed">>

\* the mutating requests sent so far, all answered with the conflict error
AllConflict ==
    /\ \E i \in 1..Len(log) : IsMutation(log[i])
    /\ \A i \in 1..Len(log) : IsMutation(log[i]) => log[i].res = "conflict"

\* C7: in the L7 policy operations the number of attempts of the mutating request is
\* bounded by the timeout; when every attempt was answered with the conflict error
\* the operation has returned only once the timeout had elapsed, and with an error.
C7_ConflictRetryBounded ==
    op.name \in L7Operations =>
        /\ retry.attempts * RetryInterval <= op.timeout + RetryInterval
        /\ (pc = "done" /\ AllConflict)
              => /\ ret # nil
                 /\ retry.elapsed > op.timeout
                 /\ IsMutation(log[Len(log)])

C7_Witness ==
    /\ op.name = "resourceL7PolicyV2Delete"
    /\ pc = "done"
    /\ AllConflict
    /\ retry.attempts = 3
    /\ ret = <<"Error deleting L7 Policy", "timeout while waiting", "ErrConflict">>

\* a wait on the load balancer of the listener that returned with status ACTIVE
ListenerLBActive(e) ==
    e.ev = "WAIT" /\ e.kind = "waitForLBV2viaListener" /\ e.res = "ACTIVE"

\* a wait on the policy that returned with the policy deleted
PolicyDeleted(e) ==
    e.ev = "WAIT" /\ e.kind = "waitForLBV2L7Policy" /\ e.res \in {"gone", "DELETED"}

\* C8: in the L7 policy operations every mutating request comes after a wait on the
\* listener's load balancer that returned ACTIVE; an operation that returned success
\* sent a request that succeeded, then read the listener and waited on its load
\* balancer until ACTIVE, and Delete waited for the policy to be deleted in between.
C8_MutationBetweenWaits ==
    op.name \in L7Operations =>
        /\ \A i \in 1..Len(log) :
              IsMutation(log[i]) => \E j \in 1..(i - 1) : ListenerLBActive(log[j])
        /\ (pc = "done" /\ ret = nil)
              => \E i, g, j \in 1..Len(log) :
                    /\ i < g /\ g < j
                    /\ IsMutation(log[i]) /\ log[i].res = "ok"
                    /\ log[g].ev = "GET" /\ log[g].kind = "listener"
                    /\ ListenerLBActive(log[j])
                    /\ op.name = "resourceL7PolicyV2Delete"
                          => \E k \in (i + 1)..(g - 1) : PolicyDeleted(log[k])

C8_Witness ==
    /\ op.name = "resourceL7PolicyV2Delete"
    /\ pc = "done"
    /\ ret = nil
    /\ \E i \in 1..Len(log) : IsMutation(log[i]) /\ log[i].res = "conflict"

\* C9: when a wait that follows a mutating request that succeeded has failed
\* (unexpected status, not-found on a non-deletion target, timeout) the operation
\* returns an error.
C9_WaitFailurePropagates ==
    ( /\ pc = "done"
      /\ \E i, j \in 1..Len(log) :
            /\ i < j
            /\ log[i].ev \in {"POST", "PUT", "DELETE"} /\ log[i].res = "ok"
            /\ log[j].ev = "WAIT" /\ log[j].res = "failed" )
        => ret # nil

\* the combinations of inputs the validation of the action rejects
RejectedCombination(action, redirectURL, redirectPoolID) ==
    \/ action = "REJECT" /\ (redirectURL # "" \/ redirectPoolID # "")
    \/ action = "REDIRECT_TO_POOL" /\ redirectURL # ""
    \/ action = "REDIRECT_TO_URL" /\ redirectPoolID # ""

\* C10: Create, past the construction of its client, has returned the validation
\* error of checkL7PolicyAction exactly when the action is REJECT with a redirect URL
\* or a redirect pool, REDIRECT_TO_POOL with a redirect URL, or REDIRECT_TO_URL with
\* a redirect pool.
C10_ActionValidation ==
    (op.name = "resourceL7PolicyV2Create" /\ ~op.clientErr)
        => ( (pc = "done" /\ ret # nil /\ ret[1] = "Unable to create L7 Policy")
             <=> RejectedCombination(op.action, op.redirectURL, op.redirectPoolID) )

C10_Witness ==
    /\ op.name = "resourceL7PolicyV2Create"
    /\ op.action = "REDIRECT_TO_URL"
    /\ op.redirectPoolID # ""
    /\ op.redirectURL = ""
    /\ ret = <<"Unable to create L7 Policy",
               "redirect_pool_id must be empty when action is set to", "REDIRECT_TO_URL">>

\* the combinations in which exactly the companion field the action calls for is set
WellFormedCombination(action, redirectURL, redirectPoolID) ==
    \/ action = "REJECT" /\ redirectURL = "" /\ redirectPoolID = ""
    \/ action = "REDIRECT_TO_POOL" /\ redirectPoolID # "" /\ redirectURL = ""
    \/ action = "REDIRECT_TO_URL" /\ redirectURL # "" /\ redirectPoolID = ""

\* Create got past checkL7PolicyAction
CreateValidated ==
    /\ op.name = "resourceL7PolicyV2Create"
    /\ ~op.clientErr
    /\ ~(pc = "done" /\ ret # nil /\ ret[1] = "Unable to create L7 Policy")

\* C11: Create gets past the validation of the action only with REJECT and both
\* companion fields empty, REDIRECT_TO_POOL with a pool and no URL, or
\* REDIRECT_TO_URL with a URL and no pool; a redirect action with both companion
\* fields empty is rejected.
C11_ExactlyOneCompanion ==
    (CreateValidated /\ op.action \in {"REJECT", "REDIRECT_TO_POOL", "REDIRECT_TO_URL"})
        => WellFormedCombination(op.action, op.redirectURL, op.redirectPoolID)

\* Create or Update reached checkL7PolicyAction with a combination it rejects
ValidationFailed ==
    /\ op.name \in {"resourceL7PolicyV2Create", "resourceL7PolicyV2Update"}
    /\ ~op.clientErr
    /\ ~op.positionChanged
    /\ RejectedCombination(op.action, op.redirectURL, op.redirectPoolID)

\* C12: when checkL7PolicyAction fails in Create or Update the operation has returned
\* the validation error and nothing else has happened: no request was sent, no wait
\* was started and no status fetched, no attempt of the mutating request was made,
\* and the resource ID is the one the operation started with.
C12_ValidationBeforeRequests ==
    ValidationFailed =>
        /\ pc = "done"
        /\ ret # nil
        /\ ret[Len(ret)] = op.action
        /\ log = <<>>
        /\ wait = NoWait
        /\ retry = NoRetry
        /\ id = IF op.name = "resourceL7PolicyV2Update" THEN "l7policy1" ELSE ""

C12_Witness ==
    /\ op.name = "resourceL7PolicyV2Update"
    /\ op.action = "REJECT"
    /\ op.redirectPoolID = "pool1"
    /\ pc = "done"
    /\ ret = <<"redirect_url and redirect_pool_id must be empty when action is set to",
               "REJECT">>
    /\ log = <<>>
    /\ id = "l7policy1"

PoolWaits == {"waitForLBV2Member", "waitForLBV2Monitor", "waitForLBV2Pool"}

\* the lookup of the load balancer failed: the wait function returned err, no wait built
LookupFailed(err) == pc = "done" /\ wait = NoWait /\ ret = err

\* the lookup gave lbID: the wait function polls that load balancer
LookupFound(lbID) ==
    wait.fn = op.name /\ wait.Refresh = "LoadBalancer" /\ wait.ID = lbID

\* C13: for a pool with a direct load-balancer reference lbV2FindLBIDviaPool gives the
\* first one and reads no listener; otherwise, for a pool with a listener, it reads
\* the first listener and gives that listener's first load-balancer reference; it
\* fails when that read fails, when the listener has no load-balancer reference, and
\* when the pool has neither relation.
C13_FindLBIDviaPool ==
    (op.name \in PoolWaits /\ op.target # "DELETED") =>
        IF Len(op.pool.Loadbalancers) > 0
        THEN /\ LookupFound(op.pool.Loadbalancers[1])
             /\ log = <<>>
        ELSE IF Len(op.pool.Listeners) > 0
        THEN /\ log = <<Req("GET", "listener", op.pool.Listeners[1])>>
             /\ IF op.listenerRead.err # nil
                THEN LookupFailed(op.listenerRead.err)
                ELSE IF Len(op.listenerRead.Loadbalancers) > 0
                THEN LookupFound(op.listenerRead.Loadbalancers[1])
                ELSE LookupFailed(<<"Unable to determine loadbalancer ID from pool">>)
        ELSE /\ log = <<>>
             /\ LookupFailed(<<"Unable to determine loadbalancer ID from pool">>)

C13_Witness ==
    /\ op.name = "waitForLBV2Pool"
    /\ op.target = "ACTIVE"
    /\ op.pool.Loadbalancers = <<>>
    /\ op.pool.Listeners = <<"listener1", "listener2">>
    /\ op.listenerRead = [err |-> nil, Loadbalancers |-> <<"lb1", "lb2">>]
    /\ log = <<Req("GET", "listener", "listener1")>>
    /\ wait.ID = "lb1"
    /\ pc = "done"
    /\ ret = nil

\* C14: the target of every wait the code builds is not one of its pending statuses:
\* the waits of the volume, DNS record set and L7 policy operations, and the waits on
\* a load balancer with lbPendingStatuses for ACTIVE and lbPendingDeleteStatuses for
\* DELETED.
C14_TargetNotPending ==
    /\ "ACTIVE" \notin lbPendingStatuses
    /\ "DELETED" \notin lbPendingDeleteStatuses
    /\ wait.fn # "" => wait.Target \notin wait.Pending

C14_Witness ==
    /\ op.name = "resourceBlockStorageVolumeV1Delete"
    /\ wait.fn = "resourceBlockStorageVolumeV1Delete"
    /\ wait.Target = "deleted"
    /\ wait.last = "available"
    /\ wait.running
    /\ \E i \in 1..Len(log) :
          /\ log[i].ev = "WAIT"
          /\ log[i].kind = "resourceBlockStorageVolumeV1Delete:detach"
          /\ log[i].res = "available"

\* the error is one a timeout produced: of a wait or of the retry
TimedOut(err) ==
    \E i \in 1..Len(err) : err[i] \in {"TimeoutError", "timeout while waiting"}

\* the answers the requests of caller c got, in order
AnswersTo(c) == SelectSeq(log, LAMBDA e : e.on = c)

\* C15, its states: a caller whose request was answered with the conflict error sends
\* it again or, once its timeout has elapsed, stops; a caller that failed failed on a
\* timeout, so when the load balancer is ACTIVE again in time both callers end in
\* success and none returns the bare conflict; a caller that succeeded had exactly
\* one request accepted, its last one.
RaceAbsorbed ==
    \A c \in Callers :
       LET answers == AnswersTo(c) IN
       /\ (pc[c] \in {"Create:after", "done"} /\ Len(answers) > 0
              /\ answers[Len(answers)].res = "conflict")
             => /\ pc[c] = "done"
                /\ retry[c].elapsed > op.timeout
                /\ TimedOut(ret[c])
       /\ (pc[c] = "done" /\ ret[c] # nil) => TimedOut(ret[c])
       /\ (pc[c] = "done" /\ ret[c] = nil)
             => /\ Len(answers) > 0
                /\ \A i \in 1..Len(answers) : answers[i].res = "ok" <=> i = Len(answers)
                /\ id[c] # ""

\* C15, its steps: a step that changes the wait or the retry of one caller leaves
\* those of the other caller alone.
NoSharedPollState ==
    [][\A c, d \in Callers :
          (c # d /\ (wait'[c] # wait[c] \/ retry'[c] # retry[c]))
             => (wait'[d] = wait[d] /\ retry'[d] = retry[d])]_vars

\* C15: two callers that create an L7 policy on the same load balancer at the same
\* time: the rejected one re-issues its request, both end in success unless a timeout
\* elapses first, neither returns the conflict as its outcome, the callers share no
\* poll state, and both operations end.
C15_RaceAbsorbedByRetry ==
    /\ []RaceAbsorbed
    /\ NoSharedPollState
    /\ <>(\A c \in Callers : pc[c] = "done")

\* both callers succeeded, and one of them was answered with the conflict error first
C15_Witness ==
    /\ \A c \in Callers : pc[c] = "done" /\ ret[c] = nil
    /\ \E i \in 1..Len(log) : log[i].res = "conflict"
    /\ Len(SelectSeq(log, LAMBDA e : e.res = "ok")) = 2

\* a fetch of the wait failed with an error other than not-found
FetchFailed == wait.fn # "" /\ wait.err = ErrOther

\* C16: a fetch that fails with an error other than not-found ends the wait, whatever
\* its target: the wait has stopped polling and returns an error to its caller, and
\* from then on its record does not change (no fetch is made) until another wait
\* starts.
C16_FetchErrorFails ==
    /\ [](FetchFailed
            => /\ ~wait.running
               /\ WaitReturn(wait) # nil
               /\ EndsIn(WaitReturn(wait), ErrOther)
               /\ (InWaitFunction /\ pc = "done" => ret # nil))
    /\ [][FetchFailed => (wait' = wait \/ wait'.fetches = 0)]_vars

C16_Witness ==
    /\ op.name = "waitForLBV2Listener"
    /\ op.target = "DELETED"
    /\ wait.Refresh = "Listener"
    /\ wait.err = ErrOther
    /\ wait.fetches = 2
    /\ pc = "done"
    /\ ret = <<"Error waiting for listener", "ErrOther">>

\* the last status a poll of a load balancer observed is ERROR
SawLBError == wait.fn # "" /\ wait.Refresh = "LoadBalancer" /\ wait.last = "ERROR"

\* C17 as stated: a poll of a load balancer that observed ERROR has stopped and the
\* wait returns the error of the unexpected status, with lbPendingStatuses and with
\* lbPendingDeleteStatuses alike.
C17_ErrorStatusFatal ==
    SawLBError
        => /\ ~wait.running
           /\ wait.err = <<"UnexpectedStateError", "ERROR">>
           /\ WaitReturn(wait) # nil

\* C17 amended: ERROR is not in lbPendingStatuses and is in lbPendingDeleteStatuses; a
\* poll of a load balancer that observed ERROR under a pending set without ERROR has
\* stopped and the wait returns the error of the unexpected status; under
\* lbPendingDeleteStatuses the observation counted as pending and the wait did not
\* fail on it.
C17_ErrorStatusFatalUnlessPendingDelete ==
    /\ "ERROR" \notin lbPendingStatuses
    /\ "ERROR" \in lbPendingDeleteStatuses
    /\ SawLBError
         => IF wait.Pending = lbPendingDeleteStatuses
            THEN /\ wait.npending >= 1
                 /\ wait.err # <<"UnexpectedStateError", "ERROR">>
            ELSE /\ wait.Pending \in {lbPendingStatuses, {}}
                 /\ ~wait.running
                 /\ wait.err = <<"UnexpectedStateError", "ERROR">>
                 /\ WaitReturn(wait) # nil
                 /\ (InWaitFunction /\ pc = "done" => ret # nil)

\* a wait for DELETED that goes on polling after it observed ERROR twice
C17_Witness ==
    /\ op.name = "waitForLBV2LoadBalancer"
    /\ op.target = "DELETED"
    /\ op.pending = lbPendingDeleteStatuses
    /\ wait.last = "ERROR"
    /\ wait.npending = 2
    /\ wait.fetches = 2
    /\ wait.running

Creates == {"resourceBlockStorageVolumeV1Create", "resourceL7PolicyV2Create"}

\* C18: in volume Create and L7 policy Create, after the create request has succeeded
\* the operation only reads and waits: it sends no delete and no other mutating
\* request; when a wait after the create request has failed, that is the last thing
\* the operation did, and it has returned an error.
C18_NoRollback ==
    op.name \in Creates =>
        \A i \in 1..Len(log) :
           (log[i].ev = "POST" /\ log[i].res = "ok")
              => /\ \A j \in (i + 1)..Len(log) : log[j].ev \in {"GET", "WAIT"}
                 /\ (\E j \in (i + 1)..Len(log) :
                        log[j].ev = "WAIT" /\ log[j].res = "failed")
                       => /\ log[Len(log)].ev = "WAIT"
                          /\ pc = "done"
                          /\ ret # nil

C18_Witness ==
    /\ op.name = "resourceBlockStorageVolumeV1Create"
    /\ pc = "done"
    /\ Len(log) = 2
    /\ log[1] = Mutation("POST", "volume", "volume1", "ok")
    /\ log[2].ev = "WAIT" /\ log[2].res = "failed"
    /\ wait.err = <<"UnexpectedStateError", "error">>
    /\ ret # nil

\* the listener wait for ACTIVE saw PENDING_CREATE twice, and nothing else, before ACTIVE
TwoPendingCreateThenActive ==
    /\ op.name = "waitForLBV2Listener"
    /\ op.target = "ACTIVE"
    /\ wait.fn = op.name
    /\ wait.seen = {"PENDING_CREATE"}
    /\ wait.npending = 2
    /\ wait.last = "ACTIVE"

\* C19: a wait on a listener for ACTIVE whose load balancer read PENDING_CREATE at the
\* first two polls and ACTIVE at the third has stopped after exactly three fetches of
\* the load balancer and returns success.
C19_ListenerActiveAfterTwoPending ==
    TwoPendingCreateThenActive
        => /\ wait.Refresh = "LoadBalancer"
           /\ wait.ID = op.listener.Loadbalancers[1]
           /\ ~wait.running
           /\ wait.fetches = 3
           /\ wait.err = nil
           /\ WaitReturn(wait) = nil
           /\ (pc = "done" => ret = nil)

C19_Witness ==
    /\ TwoPendingCreateThenActive
    /\ op.pending = lbPendingStatuses
    /\ wait.fetches = 3
    /\ pc = "done"
    /\ ret = nil

\* C20: waitForLBV2Listener for target DELETED polls the listener itself; for any
\* other target it polls the first load balancer of the listener, and when the
\* listener has none it has returned an error without building a wait or fetching
\* anything; what a wait fetches does not change while it polls.
C20_ListenerFetchChosenOnce ==
    /\ [](op.name = "waitForLBV2Listener"
            => IF op.target = "DELETED"
               THEN /\ wait.fn = op.name
                    /\ wait.Refresh = "Listener"
                    /\ wait.ID = op.listener.ID
               ELSE IF Len(op.listener.Loadbalancers) > 0
               THEN /\ wait.fn = op.name
                    /\ wait.Refresh = "LoadBalancer"
                    /\ wait.ID = op.listener.Loadbalancers[1]
               ELSE /\ pc = "done"
                    /\ wait = NoWait
                    /\ log = <<>>
                    /\ ret = <<"Unable to determine how to check listener status">>)
    /\ [][(op.name = "waitForLBV2Listener" /\ wait.running)
            => (wait'.Refresh = wait.Refresh /\ wait'.ID = wait.ID)]_vars

C20_Witness ==
    /\ op.name = "waitForLBV2Listener"
    /\ op.target = "ACTIVE"
    /\ op.listener.Loadbalancers = <<>>
    /\ pc = "done"
    /\ wait = NoWait
    /\ ret = <<"Unable to determine how to check listener status">>

\* requests and waits of volume Delete in the log
IsDetach(e) == e.ev = "DELETE" /\ e.kind = "attachment"
IsVolumeDelete(e) == e.ev = "DELETE" /\ e.kind = "volume"
IsDetachWait(e) == e.ev = "WAIT" /\ e.kind = "resourceBlockStorageVolumeV1Delete:detach"

\* the detach requests that succeeded among the first n entries of the log
DetachedBefore(n) == {j \in 1..(n - 1) : IsDetach(log[j]) /\ log[j].res = "ok"}

\* C21: in volume Delete of a volume read with attachments, the delete request comes
\* after one successful detach request per attachment and, after those, a wait that
\* saw the volume available; a detach request that failed and a detach wait that
\* failed are each the last thing the operation did, and it returned an error, so no
\* delete request follows them.
C21_DetachBeforeDelete ==
    (op.name = "resourceBlockStorageVolumeV1Delete" /\ op.attachments > 0) =>
        /\ \A i \in 1..Len(log) :
              (IsVolumeDelete(log[i]) \/ (pc = "VolumeDelete:wait" /\ i = Len(log)))
                 => \E k \in 1..i :
                       /\ IsDetachWait(log[k])
                       /\ log[k].res = "available"
                       /\ (IsVolumeDelete(log[i]) => k < i)
                       /\ Cardinality(DetachedBefore(k)) = op.attachments
        /\ \A j \in 1..Len(log) :
              ( \/ (IsDetach(log[j]) /\ log[j].res # "ok")
                \/ (IsDetachWait(log[j]) /\ log[j].res = "failed") )
                 => /\ j = Len(log)
                    /\ pc = "done"
                    /\ ret # nil

C21_Witness ==
    /\ op.name = "resourceBlockStorageVolumeV1Delete"
    /\ op.attachments = 2
    /\ Len(log) = 6
    /\ IsDetach(log[2]) /\ IsDetach(log[3])
    /\ IsDetachWait(log[4]) /\ log[4].res = "available"
    /\ log[5] = Mutation("DELETE", "volume", "volume1", "ok")
    /\ pc = "done"
    /\ ret = nil

IsDeletedWait(e) == e.ev = "WAIT" /\ e.kind = "resourceBlockStorageVolumeV1Delete"

\* positions of the delete requests of the volume in the log
VolumeDeletes == {i \in 1..Len(log) : IsVolumeDelete(log[i])}

\* the operation started its wait for the volume to be deleted
DeletedWaitStarted ==
    \/ pc = "VolumeDelete:wait"
    \/ \E k \in 1..Len(log) : IsDeletedWait(log[k])

\* the operation ended inside the block that detaches the volume
EndedDetaching ==
    /\ pc = "done"
    /\ ret # nil
    /\ ret[1] \in {"Error creating OpenStack compute client",
                   "Error detaching openstack_blockstorage_volume_v1",
                   "Error waiting for openstack_blockstorage_volume_v1 to become available"}

\* C22: in volume Delete, a volume read as "deleting" gets no delete request, but the
\* operation, unless it ended while detaching, still goes into the wait for the
\* volume to be deleted and returns nil only after that wait succeeded; for any
\* other status read, the wait for deleted is started after exactly one delete
\* request, which was answered without error.
C22_DeletingSkipsRequest ==
    (op.name = "resourceBlockStorageVolumeV1Delete" /\ op.status # "") =>
        /\ op.status = "deleting" =>
              /\ VolumeDeletes = {}
              /\ DeletedWaitStarted \/ EndedDetaching \/ pc = "VolumeDelete:detach"
              /\ (pc = "done" /\ ret = nil) =>
                    /\ IsDeletedWait(log[Len(log)])
                    /\ log[Len(log)].res = "deleted"
        /\ op.status # "deleting" =>
              /\ Cardinality(VolumeDeletes) <= 1
              /\ DeletedWaitStarted =>
                    /\ Cardinality(VolumeDeletes) = 1
                    /\ \A i \in VolumeDeletes :
                          /\ log[i].res = "ok"
                          /\ \A k \in 1..Len(log) : IsDeletedWait(log[k]) => i < k

C22_Witness ==
    /\ op.name = "resourceBlockStorageVolumeV1Delete"
    /\ op.status = "deleting"
    /\ pc = "done"
    /\ ret = nil
    /\ VolumeDeletes = {}
    /\ IsDeletedWait(log[Len(log)])

C22_WitnessOther ==
    /\ op.name = "resourceBlockStorageVolumeV1Delete"
    /\ op.status = "available"
    /\ pc = "done"
    /\ ret = nil
    /\ Cardinality(VolumeDeletes) = 1
    /\ IsDeletedWait(log[Len(log)])

\* the create request succeeded and a wait after it succeeded as well
WaitedAfterCreate ==
    \E i \in 1..Len(log) :
       /\ log[i].ev = "POST" /\ log[i].res = "ok"
       /\ \E k \in (i + 1)..Len(log) : log[k].ev = "WAIT" /\ log[k].res # "failed"

\* C23: in volume Create and L7 policy Create the ID is set only once the create
\* request and the wait after it have succeeded, and only by the step that ends the
\* operation; so an operation that failed on its client, in validation, on the create
\* request or in a wait has no ID, also when the create request had succeeded.
C23_IdOnlyAfterWait ==
    op.name \in Creates =>
        /\ id # "" => (WaitedAfterCreate /\ pc = "done")
        /\ (pc = "done" /\ ret # nil /\ ~WaitedAfterCreate) => id = ""
        /\ \A i \in 1..Len(log) :
              (log[i].ev = "WAIT" /\ log[i].res = "failed") => id = ""

C23_Witness ==
    /\ op.name = "resourceL7PolicyV2Create"
    /\ pc = "done"
    /\ ret # nil
    /\ id = ""
    /\ \E i \in 1..Len(log) : log[i].ev = "POST" /\ log[i].res = "ok"
    /\ log[Len(log)].ev = "WAIT" /\ log[Len(log)].res = "failed"

C23_WitnessSet ==
    /\ op.name = "resourceBlockStorageVolumeV1Create"
    /\ pc = "done"
    /\ ret = nil
    /\ id = "volume1"
    /\ WaitedAfterCreate

L7Writes == {"resourceL7PolicyV2Create", "resourceL7PolicyV2Update"}
IsPoolWait(e) == e.ev = "WAIT" /\ e.kind = "waitForLBV2viaPool"
InPoolWait == pc \in {"Create:pool", "Update:pool"}

\* C24: L7 policy Create and Update with a redirect_pool_id begin their requests with
\* the read of the pool and wait on the pool's load balancer for ACTIVE with an empty
\* pending set; a first status other than ACTIVE ends that wait after this one fetch
\* with an error, a failed pool wait is the last thing the operation did, and the
\* waits on the listener and the mutating request come only after a pool wait that
\* saw ACTIVE. Without a redirect_pool_id the pool is neither read nor waited on.
C24_PoolCheckedFirst ==
    op.name \in L7Writes =>
        /\ (op.redirectPoolID # "" /\ Len(log) > 0) => log[1] = Req("GET", "pool", "pool1")
        /\ (op.redirectPoolID # "" /\ InPoolWait) =>
              /\ wait.fn = "waitForLBV2viaPool"
              /\ wait.Target = "ACTIVE"
              /\ wait.Pending = {}
              /\ wait.npending = 0
              /\ wait.fetches <= 1
              /\ (wait.fetches = 1 /\ wait.last # "ACTIVE") =>
                    (~wait.running /\ wait.err # nil /\ WaitReturn(wait) # nil)
              /\ \A i \in 1..Len(log) : log[i].ev = "GET"
        /\ \A k \in 1..Len(log) :
              (IsPoolWait(log[k]) /\ log[k].res # "ACTIVE") =>
                 /\ k = Len(log)
                 /\ pc = "done"
                 /\ ret # nil
                 /\ \A i \in 1..Len(log) : ~IsMutation(log[i])
        /\ op.redirectPoolID # "" =>
              \A i \in 1..Len(log) :
                 (IsMutation(log[i]) \/ log[i].kind = "waitForLBV2viaListener")
                    => \E k \in 1..(i - 1) : IsPoolWait(log[k]) /\ log[k].res = "ACTIVE"
        /\ op.redirectPoolID = "" =>
              /\ ~InPoolWait
              /\ \A i \in 1..Len(log) : ~IsPoolWait(log[i]) /\ log[i].kind # "pool"

\* the pool's load balancer was PENDING_UPDATE at the only fetch and Update failed
C24_Witness ==
    /\ op.name = "resourceL7PolicyV2Update"
    /\ op.redirectPoolID # ""
    /\ pc = "done"
    /\ ret # nil
    /\ wait.fn = "waitForLBV2viaPool"
    /\ wait.fetches = 1
    /\ wait.last = "PENDING_UPDATE"
    /\ IsPoolWait(log[Len(log)])

C24_WitnessSkipped ==
    /\ op.name = "resourceL7PolicyV2Create"
    /\ op.redirectPoolID = ""
    /\ pc = "done"
    /\ ret = nil
    /\ \E i \in 1..Len(log) : IsMutation(log[i])

ResourceWaits ==
    {"waitForLBV2Listener", "waitForLBV2Member", "waitForLBV2Monitor", "waitForLBV2Pool"}

\* a caller waits, or waited, for a listener, pool, member or monitor to be DELETED
InDeletedWait == op.name \in ResourceWaits /\ op.target = "DELETED" /\ wait.fn = op.name

\* C25: a wait for DELETED on a listener, pool, member or monitor fetches the resource
\* itself and reads ACTIVE whenever the fetch succeeds, never DELETED; it returns
\* success only after a fetch that reported not-found; with ACTIVE outside the
\* pending set the first fetch that finds the resource ends it with an error; with
\* ACTIVE in the pending set, a wait that stopped without a failed fetch stopped on a
\* timeout.
C25_DeletedOnlyByNotFound ==
    InDeletedWait =>
        /\ wait.Refresh \in {"Listener", "Member", "Monitor", "Pool"}
        /\ wait.last \in {"", "ACTIVE"}
        /\ wait.seen \subseteq {"ACTIVE"}
        /\ (~wait.running /\ WaitReturn(wait) = nil) => wait.err = ErrDefault404
        /\ (pc = "done" /\ ret = nil) => wait.err = ErrDefault404
        /\ ("ACTIVE" \notin op.pending /\ wait.last = "ACTIVE") =>
              /\ ~wait.running
              /\ wait.fetches = 1
              /\ wait.err = <<"UnexpectedStateError", "ACTIVE">>
              /\ WaitReturn(wait) # nil
        /\ ("ACTIVE" \in op.pending /\ ~wait.running /\ wait.err \notin {ErrDefault404, ErrOther}) =>
              /\ wait.err = <<"TimeoutError", wait.last>>
              /\ wait.fetches = wait.npending
              /\ WaitReturn(wait) # nil

\* a member that is still there, waited on with ACTIVE outside the pending set
C25_Witness ==
    /\ InDeletedWait
    /\ op.name = "waitForLBV2Member"
    /\ "ACTIVE" \notin op.pending
    /\ wait.fetches = 1
    /\ wait.last = "ACTIVE"
    /\ pc = "done"
    /\ ret # nil

\* a monitor that stays, waited on with ACTIVE in the pending set, until the timeout
C25_WitnessTimeout ==
    /\ InDeletedWait
    /\ op.name = "waitForLBV2Monitor"
    /\ "ACTIVE" \in op.pending
    /\ wait.npending >= 2
    /\ wait.err = <<"TimeoutError", "ACTIVE">>
    /\ pc = "done"
    /\ ret # nil

\* a listener found once and then gone
C25_WitnessGone ==
    /\ InDeletedWait
    /\ op.name = "waitForLBV2Listener"
    /\ wait.npending = 1
    /\ wait.fetches = 2
    /\ wait.err = ErrDefault404
    /\ pc = "done"
    /\ ret = nil

\* the operation ended in a run-time panic instead of returning an error value
Panicked == pc = "done" /\ ret # nil /\ ret[1] = "panic: interface conversion: interface {} is int, not int32"

\* C26: L7 policy Update with a changed position does not abort abnormally: it goes
\* on to the validation of the action and from there to its waits and the update
\* request like an update of any other field.
C26_PositionUpdateContinues ==
    (op.name = "resourceL7PolicyV2Update" /\ op.positionChanged) => ~Panicked

\* C27: an operation whose service client could not be constructed has sent no
\* request, and when it has ended it has returned an error.
C27_ClientErrorReturnsAtOnce ==
    op.clientErr =>
        /\ log = <<>>
        /\ pc = "done" => ret # nil

\* the data source read got its list of networks
NetworksListed ==
    /\ op.name = "dataSourceNetworkingNetworkV2Read"
    /\ Len(log) > 0
    /\ log[1].res = "ok"

\* a network matches when no CIDR is asked for or one of its subnets has the CIDR
NetworkMatches(n) ==
    op.cidr = "" \/ \E i \in 1..Len(n.Subnets) : n.Subnets[i] = op.cidr

MatchingNetworks == {i \in 1..Len(op.networks) : NetworkMatches(op.networks[i])}

\* a subnet read failed with an error other than not-found
SubnetReadFailed ==
    /\ op.cidr # ""
    /\ \E i \in 1..Len(op.networks) :
          \E j \in 1..Len(op.networks[i].Subnets) : op.networks[i].Subnets[j] = "500"

\* C28: the data source read, once it has its list of networks, fails when a subnet
\* read failed other than with not-found; otherwise it succeeds exactly when one
\* network matches, each matching network counted once, and then the ID is that
\* network's ID; when it fails the ID stays unset.
C28_ExactlyOneNetwork ==
    NetworksListed =>
        /\ SubnetReadFailed => ret # nil
        /\ ~SubnetReadFailed => (ret = nil <=> Cardinality(MatchingNetworks) = 1)
        /\ ret = nil => \E i \in MatchingNetworks : id = op.networks[i].ID
        /\ ret # nil => id = ""

Imported == op.name = "resourceL7PolicyV2Import"
HasSlash(s) == \E i \in 1..Len(s) : s[i] = "/"

\* C29: import of an ID that contains a '/' succeeds, and listener_id and the new ID
\* are the parts before and after its first '/': listener_id has no '/', and
\* listener_id, '/' and the new ID together are the ID given; so an ID built as
\* L + "/" + P with no '/' in L gives listener L and ID P.  Import of an ID without
\* '/' fails and leaves the ID and listener_id as they were.
C29_ImportSplitsAtFirstSlash ==
    Imported =>
        /\ pc = "done"
        /\ HasSlash(op.importID) =>
              /\ ret = nil
              /\ ~HasSlash(op.listener_id)
              /\ op.listener_id \o <<"/">> \o id = op.importID
        /\ \A k \in 1..Len(op.importID) :
              LET L == SubSeq(op.importID, 1, k - 1)
                  P == SubSeq(op.importID, k + 1, Len(op.importID))
              IN (~HasSlash(L) /\ op.importID = L \o <<"/">> \o P) =>
                    (ret = nil /\ op.listener_id = L /\ id = P)
        /\ ~HasSlash(op.importID) =>
              /\ ret # nil
              /\ id = op.importID
              /\ op.listener_id = NoOp.listener_id

\* "a//b": listener a, policy "/b"
C29_Witness ==
    /\ Imported
    /\ op.importID = <<"a", "/", "/", "b">>
    /\ op.listener_id = <<"a">>
    /\ id = <<"/", "b">>
    /\ ret = nil

C29_WitnessNoSlash ==
    /\ Imported
    /\ op.importID = <<"a", "b">>
    /\ id = <<"a", "b">>
    /\ ret # nil

Next ==
    \/ waitForLBV2LoadBalancer
    \/ waitForLBV2Listener
    \/ waitForLBV2Member
    \/ waitForLBV2Monitor
    \/ waitForLBV2Pool
    \/ WaitForStatePoll
    \/ WaitForStateExpire
    \/ WaitFunctionReturn
    \/ resourceL7PolicyV2Create
    \/ resourceL7PolicyV2Create_pool
    \/ resourceL7PolicyV2Create_before
    \/ resourceL7PolicyV2Create_retry
    \/ resourceL7PolicyV2Create_after
    \/ resourceL7PolicyV2Update
    \/ resourceL7PolicyV2Update_pool
    \/ resourceL7PolicyV2Update_before
    \/ resourceL7PolicyV2Update_retry
    \/ resourceL7PolicyV2Update_after
    \/ resourceL7PolicyV2Delete
    \/ resourceL7PolicyV2Delete_before
    \/ resourceL7PolicyV2Delete_retry
    \/ resourceL7PolicyV2Delete_policy
    \/ resourceL7PolicyV2Delete_after
    \/ resourceBlockStorageVolumeV1Create
    \/ resourceBlockStorageVolumeV1Create_wait
    \/ resourceBlockStorageVolumeV1Delete
    \/ dataSourceNetworkingNetworkV2Read
    \/ resourceBlockStorageVolumeV1Read_entry
    \/ resourceBlockStorageVolumeV1Update
    \/ resourceDNSRecordSetV2Read_entry
    \/ resourceL7PolicyV2Read_entry
    \/ resourceL7PolicyV2Import
    \/ resourceBlockStorageVolumeV1Delete_detach
    \/ resourceBlockStorageVolumeV1Delete_wait
    \/ resourceDNSRecordSetV2Create
    \/ resourceDNSRecordSetV2Create_wait
    \/ resourceDNSRecordSetV2Update
    \/ resourceDNSRecordSetV2Update_wait
    \/ resourceDNSRecordSetV2Delete
    \/ resourceDNSRecordSetV2Delete_wait

Spec == Init /\ [][Next]_vars

====
